---- MODULE Spec2Model ----
(***************************************************************************)
(* Bike-rental storefront: the booking page, the admin booking management  *)
(* page, the admin setup page and the page loaders, over the hosted        *)
(* document store (collections bikes, bookings, admin_users).              *)
(*                                                                         *)
(* Units.  Time is counted in whole hours since an epoch (minutes pass     *)
(* through the date arithmetic unchanged and are left out); a calendar day *)
(* d covers the local hours 24d .. 24d+23.  Money is counted in mills      *)
(* (1/1000 of a dollar) so that rates finer than a cent are representable. *)
(* An absent value (null, undefined, the empty string of a date field) is  *)
(* the empty tuple, a present one a one-element tuple.                     *)
(***************************************************************************)
EXTENDS Integers, Sequences, FiniteSets, TLC

\* ------------------------------------------------------------------ bounds

\* Latest instant (UTC hour) the clock reaches.
MaxTime == 1
\* Largest calendar day the user types into the start-date field.
MaxDay == 1
\* Largest hour of day the user types into the start-time field.
MaxHour == 3
\* Bookings created on the booking page in one run.
MaxBookings == 2
\* Bookings in the store when an admin opens the bookings page.
MaxStored == 1
\* Admin records created on the setup page in one run.
MaxAdmins == 2
\* Calls of the bikes page in flight at a time.
MaxBikeCalls == 1
\* Admin-status checks of App in flight at a time.
MaxChecks == 2

\* ------------------------------------------------------- program constants

HoursPerDay == 24
MinDuration == 1
MaxDuration == 30
MillsPerCent == 10
ADMIN_SETUP_CODE == "BIKERIDE2024"
FeaturedLimit == 3

\* ----------------------------------------------------------- small helpers

None == <<>>
Some(x) == <<x>>
IsSome(o) == o # <<>>
Val(o) == o[1]

SetMin(S) == CHOOSE x \in S : \A y \in S : x <= y

\* ------------------------------------------------- the runtime's time zone

\* A zone: its standard offset from UTC and the UTC instants between which
\* daylight time (standard + 1 hour) is in force.
UtcZone == [std |-> 0, dstFrom |-> 0, dstTo |-> 0]
EasternZone == [std |-> -5, dstFrom |-> 31, dstTo |-> 78]
Zones == {UtcZone, EasternZone}

Offset(z, u) == IF z.dstFrom <= u /\ u < z.dstTo THEN z.std + 1 ELSE z.std

\* Date.prototype.getHours/getDate read the local time of an instant.
LocalTime(z, u) == u + Offset(z, u)

\* new Date("<date>T<time>") and setHours/setDate turn a local time into an
\* instant: the earliest instant showing that local time, and for a local
\* time skipped by a transition the offset in force before the transition.
UTC(z, l) ==
    LET cands == { u \in (l - z.std - 1)..(l - z.std) : LocalTime(z, u) = l }
    IN  IF cands # {} THEN SetMin(cands) ELSE l - z.std

\* new Date(`${startDate}T${startTime}`)
ParseLocal(z, d, h) == UTC(z, HoursPerDay * d + h)

\* now.toISOString().split('T')[0]: the UTC calendar day of an instant.
IsoDay(u) == u \div HoursPerDay

\* now.toTimeString().slice(0, 5): the local hour of day of an instant.
LocalHour(z, u) == LocalTime(z, u) % HoursPerDay

\* ------------------------------------------------------------------- store

BikeIds == {"b1", "b2"}
Users == {"u1", "u2"}

\* The catalogue the store holds: one bike priced in whole cents, one with
\* rates finer than a cent (the bike form parses any decimal).  A text is the
\* sequence of its characters.
Catalogue ==
    [ b \in BikeIds |->
        IF b = "b1"
        THEN [id |-> "b1", name |-> <<"T", "r", "e", "k">>, type |-> <<"R", "o", "a", "d">>,
              description |-> <<"f", "a", "s", "t">>,
              hourlyRate |-> 2500, dailyRate |-> 15000, isAvailable |-> 1]
        ELSE [id |-> "b2", name |-> <<"O", "m", "a">>, type |-> <<"C", "i", "t", "y">>,
              description |-> <<"t", "o", "w", "n">>,
              hourlyRate |-> 1255, dailyRate |-> 9999, isAvailable |-> 0] ]

VARIABLES
    now,        \* the wall clock, a UTC instant
    tz,         \* the browser's time zone
    bikes,      \* collection bikes: id -> record
    bookings,   \* collection bookings, in creation order; a record's id is its position
    adminUsers, \* collection admin_users: the user_id of each record, in creation order
    net,        \* store calls in flight
    bp,         \* the BookingPage component
    bm,         \* the BookingManagement component of each admin session
    setup,      \* the AdminSetup component of each tab
    views,      \* HomePage, BrowseBikes, AdminDashboard, MyRentals
    toast,      \* the toast the last step showed, if any
    console,    \* the console.error the last step logged, if any
    notice,     \* the customer notification the last step sent, if any
    approveLog  \* history: the bookings an approve update was written to

vars == <<now, tz, bikes, bookings, adminUsers, net, bp, bm, setup, views,
          toast, console, notice, approveLog>>

\* ------------------------------------------------------------- BookingPage

NoToast == [title |-> "", variant |-> "default"]
Toast(t, v) == [title |-> t, variant |-> v]

\* useState defaults of the component (BookingPage.tsx 29-39); route is the
\* router location: "booking" while the page is mounted.
BookingPageInitial ==
    [ route |-> "booking", bikeId |-> None, bike |-> None, user |-> None,
      loading |-> TRUE, userLoading |-> TRUE, submitting |-> FALSE,
      bookingType |-> "instant", startDate |-> None, startTime |-> None,
      duration |-> 1, durationType |-> "hours" ]

\* The page is not mounted: its state is gone.
Unmounted(route) == [BookingPageInitial EXCEPT !.route = route, !.loading = FALSE,
                                                !.userLoading = FALSE]

\* useEffect on [bookingType]: an instant booking starts now.
DefaultStartEffect(p) ==
    IF p.bookingType = "instant"
    THEN [p EXCEPT !.startDate = Some(IsoDay(now)), !.startTime = Some(LocalHour(tz, now))]
    ELSE p

\* A slip: the hourly rate whatever the unit.
calculateTotalHourly(bike, durationType, duration) ==
    IF bike = None THEN 0 ELSE Val(bike).hourlyRate * duration

calculateTotal(bike, durationType, duration) ==
    IF bike = None THEN 0
    ELSE LET rate == IF durationType = "hours" THEN Val(bike).hourlyRate
                                               ELSE Val(bike).dailyRate
         IN  rate * duration

\* Number.prototype.toFixed(2) of an amount, as the number of cents it prints
\* (the nearest cent, the larger one on a tie).
toFixed2(amount) == (2 * amount + MillsPerCent) \div (2 * MillsPerCent)

\* The total the booking summary prints.
SummaryTotal(p) == toFixed2(calculateTotal(p.bike, p.durationType, p.duration))

calculateEndDateTime(z, startDate, startTime, durationType, duration) ==
    IF startDate = None \/ startTime = None THEN None
    ELSE LET start == ParseLocal(z, Val(startDate), Val(startTime))
             local == LocalTime(z, start)
         IN  IF durationType = "hours"
             THEN Some(UTC(z, local + duration))
             ELSE Some(UTC(z, local + HoursPerDay * duration))

\* A slip: the condition the wrong way round.
InitialStatusInverted(bookingType) ==
    IF bookingType = "instant" THEN "pending" ELSE "approved"

InitialStatus(bookingType) == IF bookingType = "instant" THEN "approved" ELSE "pending"

\* A slip: the two ids the wrong way round.
NewBookingIdsSwapped(p, z) ==
    [ userId |-> Val(p.bike).id,
      bikeId |-> Val(p.user).id,
      bookingType |-> p.bookingType,
      startDate |-> ParseLocal(z, Val(p.startDate), Val(p.startTime)),
      endDate |-> Val(calculateEndDateTime(z, p.startDate, p.startTime,
                                           p.durationType, p.duration)),
      totalAmount |-> calculateTotal(p.bike, p.durationType, p.duration),
      status |-> InitialStatus(p.bookingType),
      bikeNumber |-> None, deliveryStatus |-> None, returnStatus |-> None,
      deliveredAt |-> None, returnedAt |-> None, updatedAt |-> None ]

\* The record handleSubmit passes to bookings.create.
NewBooking(p, z) ==
    [ userId |-> Val(p.user).id,
      bikeId |-> Val(p.bike).id,
      bookingType |-> p.bookingType,
      startDate |-> ParseLocal(z, Val(p.startDate), Val(p.startTime)),
      endDate |-> Val(calculateEndDateTime(z, p.startDate, p.startTime,
                                           p.durationType, p.duration)),
      totalAmount |-> calculateTotal(p.bike, p.durationType, p.duration),
      status |-> InitialStatus(p.bookingType),
      bikeNumber |-> None, deliveryStatus |-> None, returnStatus |-> None,
      deliveredAt |-> None, returnedAt |-> None, updatedAt |-> None ]

\* The browser's constraint validation of the form: required date and time,
\* min on the date, min/max on the duration.
FormValid(p) ==
    /\ p.startDate # None /\ Val(p.startDate) >= IsoDay(now)
    /\ p.startTime # None
    /\ p.duration >= MinDuration /\ p.duration <= MaxDuration

\* A slip: the button is never disabled.
SubmitNeverDisabled(p) == FALSE

\* The submit button is disabled while a submission is in flight.
SubmitDisabled(p) == p.submitting

\* A change: handleSubmit also returns when a stored approved booking of the
\* same bike overlaps the requested interval.
SubmitBlockedWhenTaken(p) ==
    \/ p.bike = None \/ p.user = None
    \/ /\ p.startDate # None /\ p.startTime # None
       /\ \E i \in 1..Len(bookings) :
            /\ bookings[i].bikeId = Val(p.bike).id
            /\ bookings[i].status = "approved"
            /\ bookings[i].startDate < NewBooking(p, tz).endDate
            /\ NewBooking(p, tz).startDate < bookings[i].endDate

\* handleSubmit returns at once without a loaded bike and user; it looks at
\* nothing else before it creates the booking.
SubmitBlocked(p) == p.bike = None \/ p.user = None

\* The form (and its Back button) is rendered once the bike is loaded.
FormShown(p) == p.route = "booking" /\ ~p.loading /\ p.bike # None

\* A page that goes away leaves its calls in flight, owned by no component.
Orphaned(calls) ==
    [ i \in 1..Len(calls) |->
        IF calls[i].kind = "create" THEN [calls[i] EXCEPT !.mounted = FALSE] ELSE calls[i] ]

RemoveAt(s, i) == SubSeq(s, 1, i - 1) \o SubSeq(s, i + 1, Len(s))

CreatesInFlight == Len(SelectSeq(net, LAMBDA c : c.kind = "create"))

\* A step that shows no toast and logs nothing.
Quiet == toast' = NoToast /\ console' = "" /\ notice' = None

\* Everything but the booking page, the store's bookings, the calls and the
\* step's output.
bookingPageFrame == <<now, tz, bikes, adminUsers, bm, setup, views, approveLog>>

\* The user signed in to the customer's browser.
CustomerUser == "u1"

\* The router shows /booking/:bikeId: the component mounts, loadBike and
\* loadUser start, and the bookingType effect runs once.  At most cap
\* bookings are created in a run.
OpenBookingPage(b, cap) ==
    /\ bp.route # "booking"
    /\ Len(bookings) + CreatesInFlight < cap
    /\ bp' = DefaultStartEffect([BookingPageInitial EXCEPT !.bikeId = Some(b)])
    /\ Quiet
    /\ UNCHANGED <<bookings, net>>
    /\ UNCHANGED bookingPageFrame

\* loadBike: bikes.list({where: {id}}) answers, or fails.
LoadBikeDone(ok) ==
    /\ bp.route = "booking" /\ bp.loading
    /\ IF ~ok
       THEN /\ bp' = [bp EXCEPT !.loading = FALSE]
            /\ console' = "Error loading bike:"
            /\ toast' = Toast("Error", "destructive")
            /\ notice' = None
            /\ net' = net
       ELSE IF Val(bp.bikeId) \notin DOMAIN bikes
       THEN /\ bp' = Unmounted("browse")
            /\ toast' = Toast("Bike not found", "destructive")
            /\ console' = ""
            /\ notice' = None
            /\ net' = Orphaned(net)
       ELSE /\ bp' = [bp EXCEPT !.bike = Some(bikes[Val(bp.bikeId)]), !.loading = FALSE]
            /\ Quiet
            /\ net' = net
    /\ UNCHANGED bookings
    /\ UNCHANGED bookingPageFrame

\* loadUser: auth.me() answers with the signed-in user, or fails.
LoadUserDone(ok) ==
    /\ bp.route = "booking" /\ bp.userLoading
    /\ IF ok
       THEN /\ bp' = [bp EXCEPT !.user = Some([id |-> CustomerUser]), !.userLoading = FALSE]
            /\ Quiet
       ELSE /\ bp' = [bp EXCEPT !.userLoading = FALSE]
            /\ console' = "Error loading user:"
            /\ toast' = NoToast
            /\ notice' = None
    /\ UNCHANGED <<bookings, net>>
    /\ UNCHANGED bookingPageFrame

SetBookingType(v) ==
    /\ FormShown(bp) /\ v # bp.bookingType
    /\ bp' = DefaultStartEffect([bp EXCEPT !.bookingType = v])
    /\ Quiet
    /\ UNCHANGED <<bookings, net>>
    /\ UNCHANGED bookingPageFrame

SetStartDate(d) ==
    /\ FormShown(bp) /\ d # bp.startDate
    /\ bp' = [bp EXCEPT !.startDate = d]
    /\ Quiet
    /\ UNCHANGED <<bookings, net>>
    /\ UNCHANGED bookingPageFrame

SetStartTime(h) ==
    /\ FormShown(bp) /\ h # bp.startTime
    /\ bp' = [bp EXCEPT !.startTime = h]
    /\ Quiet
    /\ UNCHANGED <<bookings, net>>
    /\ UNCHANGED bookingPageFrame

SetDuration(n) ==
    /\ FormShown(bp) /\ n # bp.duration
    /\ bp' = [bp EXCEPT !.duration = n]
    /\ Quiet
    /\ UNCHANGED <<bookings, net>>
    /\ UNCHANGED bookingPageFrame

SetDurationType(v) ==
    /\ FormShown(bp) /\ v # bp.durationType
    /\ bp' = [bp EXCEPT !.durationType = v]
    /\ Quiet
    /\ UNCHANGED <<bookings, net>>
    /\ UNCHANGED bookingPageFrame

\* The form is submitted (the button, when enabled and the form valid).
HandleSubmit(cap) ==
    /\ FormShown(bp) /\ ~SubmitDisabled(bp) /\ FormValid(bp)
    /\ Len(bookings) + CreatesInFlight < cap
    /\ IF SubmitBlocked(bp)
       THEN /\ Quiet
            /\ UNCHANGED <<bp, net>>
       ELSE IF calculateEndDateTime(tz, bp.startDate, bp.startTime,
                                    bp.durationType, bp.duration) = None
       THEN /\ console' = "Error creating booking:"
            /\ toast' = Toast("Booking failed", "destructive")
            /\ notice' = None
            /\ UNCHANGED <<bp, net>>
       ELSE /\ bp' = [bp EXCEPT !.submitting = TRUE]
            /\ net' = Append(net, [kind |-> "create", rec |-> NewBooking(bp, tz),
                                   mounted |-> TRUE])
            /\ Quiet
    /\ UNCHANGED bookings
    /\ UNCHANGED bookingPageFrame

\* bookings.create answers: the record is stored, the success toast is shown
\* and the router goes to /my-rentals; or the call fails.
CreateDone(i, ok) ==
    /\ i \in 1..Len(net) /\ net[i].kind = "create"
    /\ notice' = None
    /\ IF ok
       THEN /\ bookings' = Append(bookings, net[i].rec)
            /\ toast' = Toast("Booking submitted!", "default")
            /\ console' = ""
            /\ bp' = Unmounted("my-rentals")
            /\ net' = Orphaned(RemoveAt(net, i))
       ELSE /\ bookings' = bookings
            /\ console' = "Error creating booking:"
            /\ toast' = Toast("Booking failed", "destructive")
            /\ bp' = IF net[i].mounted THEN [bp EXCEPT !.submitting = FALSE] ELSE bp
            /\ net' = RemoveAt(net, i)
    /\ UNCHANGED bookingPageFrame

\* Back to Browse.
LeaveBookingPage ==
    /\ bp.route = "booking" /\ ~bp.loading
    /\ bp' = Unmounted("browse")
    /\ net' = Orphaned(net)
    /\ Quiet
    /\ UNCHANGED bookings
    /\ UNCHANGED bookingPageFrame

Tick ==
    /\ now < MaxTime
    /\ now' = now + 1
    /\ Quiet
    /\ UNCHANGED <<tz, bikes, bookings, adminUsers, net, bp, bm, setup, views, approveLog>>

\* ----------------------------------------------- the booking page, in use

BikeParams == BikeIds \cup {"b0"}
BookingTypes == {"instant", "pre_reservation"}
DurationTypes == {"hours", "days"}

\* What the customer types in this exploration: the date cleared or set to
\* the last day, midnight, a two-unit rental.
TypedDates == {None, Some(MaxDay)}
TypedTimes == {Some(0)}
TypedDurations == {MinDuration + 1}

InitStore ==
    /\ bikes = Catalogue
    /\ bookings = <<>>
    /\ adminUsers = <<>>
    /\ net = <<>>

InitIdle ==
    /\ bm = <<>>
    /\ setup = <<>>
    /\ views = <<>>
    /\ toast = NoToast
    /\ console = ""
    /\ notice = None
    /\ approveLog = {}

InitBooking ==
    /\ now = 0
    /\ tz = UtcZone
    /\ InitStore
    /\ bp = Unmounted("browse")
    /\ InitIdle

NextBooking ==
    \/ \E b \in BikeParams : OpenBookingPage(b, MaxBookings)
    \/ \E ok \in BOOLEAN : LoadBikeDone(ok)
    \/ \E ok \in BOOLEAN : LoadUserDone(ok)
    \/ \E v \in BookingTypes : SetBookingType(v)
    \/ \E d \in TypedDates : SetStartDate(d)
    \/ \E h \in TypedTimes : SetStartTime(h)
    \/ \E n \in TypedDurations : SetDuration(n)
    \/ \E v \in DurationTypes : SetDurationType(v)
    \/ HandleSubmit(MaxBookings)
    \/ \E i \in 1..Len(net), ok \in BOOLEAN : CreateDone(i, ok)
    \/ LeaveBookingPage
    \/ Tick

SpecBooking == InitBooking /\ [][NextBooking]_vars

\* ------------------------------------ the booking form, every input value

StartDates == {None} \cup { Some(d) : d \in 0..MaxDay }
StartTimes == {None} \cup { Some(h) : h \in 0..MaxHour }
FormDurations == (MinDuration - 1)..(MaxDuration + 1)

\* The form as the customer may have filled it in, bike and user loaded.
FilledForms ==
    { [ BookingPageInitial EXCEPT
          !.bikeId = Some(b), !.bike = Some(Catalogue[b]),
          !.user = Some([id |-> CustomerUser]),
          !.loading = FALSE, !.userLoading = FALSE,
          !.bookingType = bt, !.startDate = d, !.startTime = h,
          !.duration = n, !.durationType = dt ] :
        b \in BikeIds, bt \in BookingTypes, d \in StartDates, h \in StartTimes,
        n \in FormDurations, dt \in DurationTypes }

InitCalc ==
    /\ now \in 0..MaxTime
    /\ tz \in Zones
    /\ InitStore
    /\ bp \in FilledForms
    /\ InitIdle

NextCalc ==
    \/ HandleSubmit(MaxBookings)
    \/ \E i \in 1..Len(net), ok \in BOOLEAN : CreateDone(i, ok)

SpecCalc == InitCalc /\ [][NextCalc]_vars

\* ------------------------------------------------------- BookingManagement

Admins == {"a1", "a2"}

\* useState defaults of the component; reloading says that a loadBookings
\* call started by a handler is in flight.
BookingManagementInitial ==
    [ bookings |-> <<>>, loading |-> TRUE, reloading |-> FALSE,
      processingBookings |-> {}, selectedBooking |-> None,
      bikeNumberInput |-> "", deliveryStatusInput |-> "", returnStatusInput |-> "",
      dialogOpen |-> FALSE ]

\* A slip: the record is replaced by the data.
MergeReplace(rec, data) == data

\* bookings.update(id, data): the fields of data replace those of the record.
Merge(rec, data) ==
    [ f \in DOMAIN rec |-> IF f \in DOMAIN data THEN data[f] ELSE rec[f] ]

\* One element of loadBookings' result: the stored record, its id, and the
\* bike joined to it unless the bike's own list call failed.
BookingWithBike(i, joined) ==
    [ f \in DOMAIN bookings[i] \cup {"id", "bike"} |->
        CASE f = "id" -> i
          [] f = "bike" -> IF joined /\ bookings[i].bikeId \in DOMAIN bikes
                           THEN Some(bikes[bookings[i].bikeId]) ELSE None
          [] OTHER -> bookings[i][f] ]

\* A slip: a booking whose bike was not found is dropped from the list.
ListedBookingsWithBike(lost) ==
    SelectSeq([ k \in 1..Len(bookings) |->
                  BookingWithBike(Len(bookings) + 1 - k, (Len(bookings) + 1 - k) \notin lost) ],
              LAMBDA r : r.bike # None)

\* bookings.list({orderBy: {createdAt: 'desc'}}) with the bikes joined; lost
\* are the bookings whose bike call failed.
ListedBookings(lost) ==
    [ k \in 1..Len(bookings) |->
        BookingWithBike(Len(bookings) + 1 - k, (Len(bookings) + 1 - k) \notin lost) ]

\* bookings.find(b => b.id === id)
Find(rows, id) ==
    IF \E k \in 1..Len(rows) : rows[k].id = id
    THEN Some(rows[CHOOSE k \in 1..Len(rows) : rows[k].id = id])
    ELSE None

UnknownBike == <<"U", "n", "k", "n", "o", "w", "n", " ", "B", "i", "k", "e">>

\* The title of a booking's card: booking.bike?.name || 'Unknown Bike'.
CardTitle(row) ==
    IF row.bike # None /\ Val(row.bike).name # <<>> THEN Val(row.bike).name ELSE UnknownBike

\* The five tabs and the bookings each lists.
Tabs == {"pending", "approved", "completed", "rejected", "all"}
TabLists(tab, row) == tab = "all" \/ row.status = tab
ShowActions(tab) == tab = "pending"
ShowStatusUpdate(tab) == tab \in {"approved", "all"}

\* Some tab shows the Approve and Reject buttons of the row, enabled.
ActionButtons(m, row) ==
    /\ ~m.loading /\ ~m.dialogOpen
    /\ \E tab \in Tabs : TabLists(tab, row) /\ ShowActions(tab) /\ row.status = "pending"
    /\ row.id \notin m.processingBookings

\* Some tab shows the Update Status button of the row, enabled.
StatusButton(m, row) ==
    /\ ~m.loading /\ ~m.dialogOpen
    /\ \E tab \in Tabs :
         /\ TabLists(tab, row)
         /\ (ShowStatusUpdate(tab) \/ row.status = "approved") /\ row.status # "rejected"
    /\ row.id \notin m.processingBookings

\* A slip: a status word the application does not know.
NewStatusDeclined(action) == IF action = "approve" THEN "approved" ELSE "declined"

\* A slip: either action approves.
NewStatusApproved(action) == "approved"

NewStatus(action) == IF action = "approve" THEN "approved" ELSE "rejected"

\* The data handleBookingAction passes to bookings.update.
ActionData(action) == [status |-> NewStatus(action), updatedAt |-> Some(now)]

\* A change: a delivery update completes the booking too.
StatusUpdateFieldsDeliveryCompletes(type, m) ==
    IF type = "delivery"
    THEN {"updatedAt", "deliveryStatus", "status"}
           \cup (IF m.deliveryStatusInput = "delivered" THEN {"deliveredAt"} ELSE {})
           \cup (IF m.bikeNumberInput # "" THEN {"bikeNumber"} ELSE {})
    ELSE {"updatedAt", "returnStatus"}
           \cup (IF m.returnStatusInput = "returned" THEN {"returnedAt", "status"} ELSE {})

\* The fields handleStatusUpdate puts into updateData.
StatusUpdateFields(type, m) ==
    IF type = "delivery"
    THEN {"updatedAt", "deliveryStatus"}
           \cup (IF m.deliveryStatusInput = "delivered" THEN {"deliveredAt"} ELSE {})
           \cup (IF m.bikeNumberInput # "" THEN {"bikeNumber"} ELSE {})
    ELSE {"updatedAt", "returnStatus"}
           \cup (IF m.returnStatusInput = "returned" THEN {"returnedAt", "status"} ELSE {})

\* updateData as handleStatusUpdate builds it.
StatusUpdateData(type, m) ==
    [ f \in StatusUpdateFields(type, m) |->
        CASE f = "updatedAt" -> Some(now)
          [] f = "deliveryStatus" -> Some(m.deliveryStatusInput)
          [] f = "deliveredAt" -> Some(now)
          [] f = "bikeNumber" -> Some(m.bikeNumberInput)
          [] f = "returnStatus" -> Some(m.returnStatusInput)
          [] f = "returnedAt" -> Some(now)
          [] f = "status" -> "completed" ]

\* The notification handleStatusUpdate sends once the update is written.
StatusNotification(type, m) ==
    IF type = "delivery" /\ m.deliveryStatusInput = "delivered" THEN "delivered"
    ELSE IF type = "return" /\ m.returnStatusInput = "returned" THEN "returned"
    ELSE ""

\* Everything but the admin pages, the store's bookings, the calls, the
\* history and the step's output.
managementFrame == <<now, tz, bikes, adminUsers, bp, setup, views>>

\* loadBookings answers: the list replaces the snapshot; a bike call that
\* fails is logged; a failing list is logged and toasted.
LoadBookingsDone(s, ok, lost) ==
    /\ s \in DOMAIN bm
    /\ bm[s].loading \/ bm[s].reloading
    /\ lost \subseteq 1..Len(bookings)
    /\ IF ok
       THEN /\ bm' = [bm EXCEPT ![s].bookings = ListedBookings(lost),
                                ![s].loading = FALSE, ![s].reloading = FALSE]
            /\ console' = IF lost = {} THEN "" ELSE "Error loading bike for booking:"
            /\ toast' = NoToast
       ELSE /\ lost = {}
            /\ bm' = [bm EXCEPT ![s].loading = FALSE, ![s].reloading = FALSE]
            /\ console' = "Error loading bookings:"
            /\ toast' = Toast("Error", "destructive")
    /\ notice' = None
    /\ UNCHANGED <<bookings, net, approveLog>>
    /\ UNCHANGED managementFrame

\* Approve or Reject is clicked on a listed booking: the booking is marked
\* as processing and the update is sent.
HandleBookingAction(s, id, action) ==
    /\ s \in DOMAIN bm
    /\ Find(bm[s].bookings, id) # None
    /\ ActionButtons(bm[s], Val(Find(bm[s].bookings, id)))
    /\ bm' = [bm EXCEPT ![s].processingBookings = @ \cup {id}]
    /\ net' = Append(net, [kind |-> "update", sess |-> s, id |-> id, via |-> action,
                           data |-> ActionData(action), notify |-> action])
    /\ Quiet
    /\ UNCHANGED <<bookings, approveLog>>
    /\ UNCHANGED managementFrame

\* Update Status is clicked on a listed booking.
OpenStatusDialog(s, id) ==
    /\ s \in DOMAIN bm
    /\ Find(bm[s].bookings, id) # None
    /\ StatusButton(bm[s], Val(Find(bm[s].bookings, id)))
    /\ LET row == Val(Find(bm[s].bookings, id))
       IN  bm' = [bm EXCEPT
                    ![s].selectedBooking = Some(id),
                    ![s].bikeNumberInput =
                        IF row.bikeNumber = None THEN "" ELSE Val(row.bikeNumber),
                    ![s].deliveryStatusInput =
                        IF row.deliveryStatus = None THEN "pending" ELSE Val(row.deliveryStatus),
                    ![s].returnStatusInput =
                        IF row.returnStatus = None THEN "not_returned" ELSE Val(row.returnStatus),
                    ![s].dialogOpen = TRUE]
    /\ Quiet
    /\ UNCHANGED <<bookings, net, approveLog>>
    /\ UNCHANGED managementFrame

\* The dialog is dismissed (onOpenChange).
CloseStatusDialog(s) ==
    /\ s \in DOMAIN bm
    /\ bm[s].dialogOpen
    /\ bm' = [bm EXCEPT ![s].dialogOpen = FALSE]
    /\ Quiet
    /\ UNCHANGED <<bookings, net, approveLog>>
    /\ UNCHANGED managementFrame

SetBikeNumberInput(s, v) ==
    /\ s \in DOMAIN bm
    /\ bm[s].dialogOpen /\ bm[s].selectedBooking # None
    /\ bm' = [bm EXCEPT ![s].bikeNumberInput = v]
    /\ Quiet
    /\ UNCHANGED <<bookings, net, approveLog>>
    /\ UNCHANGED managementFrame

SetDeliveryStatusInput(s, v) ==
    /\ s \in DOMAIN bm
    /\ bm[s].dialogOpen /\ bm[s].selectedBooking # None
    /\ bm' = [bm EXCEPT ![s].deliveryStatusInput = v]
    /\ Quiet
    /\ UNCHANGED <<bookings, net, approveLog>>
    /\ UNCHANGED managementFrame

SetReturnStatusInput(s, v) ==
    /\ s \in DOMAIN bm
    /\ bm[s].dialogOpen /\ bm[s].selectedBooking # None
    /\ bm' = [bm EXCEPT ![s].returnStatusInput = v]
    /\ Quiet
    /\ UNCHANGED <<bookings, net, approveLog>>
    /\ UNCHANGED managementFrame

\* Update Delivery or Update Return is clicked in the dialog.
HandleStatusUpdate(s, type) ==
    /\ s \in DOMAIN bm
    /\ bm[s].dialogOpen /\ bm[s].selectedBooking # None
    /\ Val(bm[s].selectedBooking) \notin bm[s].processingBookings
    /\ bm' = [bm EXCEPT ![s].processingBookings = @ \cup {Val(bm[s].selectedBooking)}]
    /\ net' = Append(net, [kind |-> "update", sess |-> s,
                           id |-> Val(bm[s].selectedBooking), via |-> type,
                           data |-> StatusUpdateData(type, bm[s]),
                           notify |-> StatusNotification(type, bm[s])])
    /\ Quiet
    /\ UNCHANGED <<bookings, approveLog>>
    /\ UNCHANGED managementFrame

\* A slip: the notification is sent whether the update is written or not.
NotifiedAnyway(c, written) ==
    IF c.notify = "" THEN None ELSE Some([id |-> c.id, action |-> c.notify])

\* sendNotifications comes after the awaited update: a call that throws
\* skips it.
Notified(c, written) ==
    IF written /\ c.notify # "" THEN Some([id |-> c.id, action |-> c.notify]) ELSE None

\* bookings.update answers.  Written: the notification goes out, the success
\* toast is shown, a status update closes the dialog, loadBookings starts.
\* Failed: logged and toasted.  Either way the booking stops processing.
UpdateDone(k, ok) ==
    /\ k \in 1..Len(net) /\ net[k].kind = "update"
    /\ LET c == net[k]
       IN  /\ net' = RemoveAt(net, k)
           /\ IF ok
              THEN /\ bookings' = [bookings EXCEPT ![c.id] = Merge(@, c.data)]
                   /\ approveLog' = IF c.via = "approve" THEN approveLog \cup {c.id}
                                                         ELSE approveLog
                   /\ notice' = Notified(c, TRUE)
                   /\ toast' = Toast("Success", "default")
                   /\ console' = ""
                   /\ bm' = [bm EXCEPT
                               ![c.sess].dialogOpen =
                                   IF c.via \in {"delivery", "return"} THEN FALSE ELSE @,
                               ![c.sess].reloading = TRUE,
                               ![c.sess].processingBookings = @ \ {c.id}]
              ELSE /\ UNCHANGED <<bookings, approveLog>>
                   /\ notice' = Notified(c, FALSE)
                   /\ toast' = Toast("Error", "destructive")
                   /\ console' = "Error updating booking:"
                   /\ bm' = [bm EXCEPT ![c.sess].processingBookings = @ \ {c.id}]
    /\ UNCHANGED managementFrame

\* ------------------------------------------- the admin's bookings page, in use

\* The options of the two selects of the status dialog.
DeliveryStatuses == {"pending", "in_transit", "delivered"}
ReturnStatuses == {"not_returned", "overdue", "returned"}
\* What the admin types and selects in this exploration, next to the values
\* the dialog opens with.
TypedBikeNumbers == {"BK001"}
SelectedDeliveryStatuses == {"delivered"}
SelectedReturnStatuses == {"returned"}
BookingActions == {"approve", "reject"}
UpdateTypes == {"delivery", "return"}

\* The bookings customers have made before the admin opens the page: the
\* records handleSubmit creates for a one-hour rental of the first bike.
RequestedForms ==
    { f \in FilledForms :
        /\ f.bikeId = Some("b1") /\ f.startDate = Some(0) /\ f.startTime = Some(0)
        /\ f.duration = MinDuration /\ f.durationType = "hours" }
CreatedBookings == { NewBooking(f, UtcZone) : f \in RequestedForms }
Stores(n) == UNION { [1..k -> CreatedBookings] : k \in 1..n }

InitAdmin(sessions, stores) ==
    /\ now = 0
    /\ tz = UtcZone
    /\ bikes = Catalogue
    /\ bookings \in stores
    /\ adminUsers = <<>>
    /\ net = <<>>
    /\ bp = Unmounted("browse")
    /\ bm = [s \in sessions |-> BookingManagementInitial]
    /\ setup = <<>>
    /\ views = <<>>
    /\ toast = NoToast
    /\ console = ""
    /\ notice = None
    /\ approveLog = {}

\* One admin, the page as it is; the clock stands still and no bike call
\* fails.
InitManage == InitAdmin({"a1"}, Stores(MaxStored))

NextManage ==
    \/ \E ok \in BOOLEAN : LoadBookingsDone("a1", ok, {})
    \/ \E id \in 1..Len(bookings), a \in BookingActions : HandleBookingAction("a1", id, a)
    \/ \E id \in 1..Len(bookings) : OpenStatusDialog("a1", id)
    \/ CloseStatusDialog("a1")
    \/ \E v \in TypedBikeNumbers : SetBikeNumberInput("a1", v)
    \/ \E v \in SelectedDeliveryStatuses : SetDeliveryStatusInput("a1", v)
    \/ \E v \in SelectedReturnStatuses : SetReturnStatusInput("a1", v)
    \/ \E t \in UpdateTypes : HandleStatusUpdate("a1", t)
    \/ \E k \in 1..Len(net), ok \in BOOLEAN : UpdateDone(k, ok)

SpecManage == InitManage /\ [][NextManage]_vars

\* One admin choosing among all the options of the status dialog; the clock
\* stands still, no call fails and no bike number is typed.
NextDialog ==
    \/ \E ok \in BOOLEAN : LoadBookingsDone("a1", ok, {})
    \/ \E id \in 1..Len(bookings), a \in BookingActions : HandleBookingAction("a1", id, a)
    \/ \E id \in 1..Len(bookings) : OpenStatusDialog("a1", id)
    \/ CloseStatusDialog("a1")
    \/ \E v \in DeliveryStatuses : SetDeliveryStatusInput("a1", v)
    \/ \E v \in ReturnStatuses : SetReturnStatusInput("a1", v)
    \/ \E t \in UpdateTypes : HandleStatusUpdate("a1", t)
    \/ \E k \in 1..Len(net) : UpdateDone(k, TRUE)

SpecDialog == InitManage /\ [][NextDialog]_vars

\* Two admins, each with the page open, approving and rejecting.
InitTabs == InitAdmin(Admins, Stores(MaxStored))

NextTabs ==
    \/ \E s \in Admins, ok \in BOOLEAN, lost \in SUBSET (1..Len(bookings)) :
         LoadBookingsDone(s, ok, lost)
    \/ \E s \in Admins, id \in 1..Len(bookings), a \in BookingActions :
         HandleBookingAction(s, id, a)
    \/ \E k \in 1..Len(net), ok \in BOOLEAN : UpdateDone(k, ok)
    \/ Tick

SpecTabs == InitTabs /\ [][NextTabs]_vars

\* -------------------------------------------------------------- AdminSetup

\* useState defaults of the component, mounted in the browser of one user.
AdminSetupInitial ==
    [ mounted |-> TRUE, adminCode |-> "", isLoading |-> FALSE,
      hasAdmins |-> FALSE, checkingAdmins |-> TRUE ]

\* The page is not mounted: its state is gone.
AdminSetupUnmounted ==
    [AdminSetupInitial EXCEPT !.mounted = FALSE, !.checkingAdmins = FALSE]

\* The setup form is rendered.
SetupFormShown(t) == t.mounted /\ ~t.checkingAdmins /\ ~t.hasAdmins

\* The Request Admin Access button is rendered.
RequestButtonShown(t) == t.mounted /\ ~t.checkingAdmins /\ t.hasAdmins

\* The calls of the page of user u lose their component.
OrphanedOf(calls, u) ==
    [ i \in 1..Len(calls) |->
        IF calls[i].kind \in {"adminCreate", "adminList"} /\ calls[i].user = u
        THEN [calls[i] EXCEPT !.mounted = FALSE] ELSE calls[i] ]

AdminCallsInFlight ==
    Len(SelectSeq(net, LAMBDA c : c.kind \in {"adminCreate", "adminList"}))

\* Everything but the setup pages, the admin records, the calls and the
\* step's output.
setupFrame == <<now, tz, bikes, bookings, bp, bm, views, approveLog>>

\* The router shows /admin-setup: the component mounts and
\* checkExistingAdmins starts.
OpenAdminSetup(u) ==
    /\ ~setup[u].mounted
    /\ setup' = [setup EXCEPT ![u] = AdminSetupInitial]
    /\ Quiet
    /\ UNCHANGED <<adminUsers, net>>
    /\ UNCHANGED setupFrame

\* checkExistingAdmins: admin_users.list() answers, or fails and is logged.
CheckExistingAdminsDone(u, ok) ==
    /\ setup[u].mounted /\ setup[u].checkingAdmins
    /\ IF ok
       THEN /\ setup' = [setup EXCEPT ![u].hasAdmins = Len(adminUsers) > 0,
                                      ![u].checkingAdmins = FALSE]
            /\ console' = ""
       ELSE /\ setup' = [setup EXCEPT ![u].checkingAdmins = FALSE]
            /\ console' = "Error checking admins:"
    /\ toast' = NoToast
    /\ notice' = None
    /\ UNCHANGED <<adminUsers, net>>
    /\ UNCHANGED setupFrame

SetAdminCode(u, code) ==
    /\ SetupFormShown(setup[u])
    /\ setup' = [setup EXCEPT ![u].adminCode = code]
    /\ Quiet
    /\ UNCHANGED <<adminUsers, net>>
    /\ UNCHANGED setupFrame

\* The setup form is submitted (the code is a required field).  At most cap
\* admin records are created in a run.
HandleSetupAdmin(u, cap) ==
    /\ SetupFormShown(setup[u]) /\ ~setup[u].isLoading /\ setup[u].adminCode # ""
    /\ Len(adminUsers) + AdminCallsInFlight < cap
    /\ IF setup[u].adminCode # ADMIN_SETUP_CODE
       THEN /\ toast' = Toast("Invalid Code", "destructive")
            /\ console' = ""
            /\ notice' = None
            /\ UNCHANGED <<setup, net>>
       ELSE /\ setup' = [setup EXCEPT ![u].isLoading = TRUE]
            /\ net' = Append(net, [kind |-> "adminCreate", user |-> u, via |-> "setup",
                                   mounted |-> TRUE])
            /\ Quiet
    /\ UNCHANGED adminUsers
    /\ UNCHANGED setupFrame

\* Request Admin Access is clicked: the user's own admin records are listed.
HandleBecomeAdmin(u, cap) ==
    /\ RequestButtonShown(setup[u]) /\ ~setup[u].isLoading
    /\ Len(adminUsers) + AdminCallsInFlight < cap
    /\ setup' = [setup EXCEPT ![u].isLoading = TRUE]
    /\ net' = Append(net, [kind |-> "adminList", user |-> u, via |-> "become",
                           mounted |-> TRUE])
    /\ Quiet
    /\ UNCHANGED adminUsers
    /\ UNCHANGED setupFrame

\* handleBecomeAdmin's list answers: a user with a record is sent to /admin,
\* any other user's record is created; a failure is logged and toasted.
AdminListDone(k, ok) ==
    /\ k \in 1..Len(net) /\ net[k].kind = "adminList"
    /\ LET c == net[k]
       IN  IF ~ok
           THEN /\ net' = RemoveAt(net, k)
                /\ console' = "Error becoming admin:"
                /\ toast' = Toast("Access Denied", "destructive")
                /\ setup' = IF c.mounted THEN [setup EXCEPT ![c.user].isLoading = FALSE]
                                         ELSE setup
           ELSE IF \E i \in 1..Len(adminUsers) : adminUsers[i] = c.user
           THEN /\ net' = RemoveAt(net, k)
                /\ console' = ""
                /\ toast' = Toast("Already Admin", "default")
                /\ setup' = IF c.mounted THEN [setup EXCEPT ![c.user] = AdminSetupUnmounted]
                                         ELSE setup
           ELSE /\ net' = [net EXCEPT ![k] = [c EXCEPT !.kind = "adminCreate"]]
                /\ console' = ""
                /\ toast' = NoToast
                /\ setup' = setup
    /\ notice' = None
    /\ UNCHANGED adminUsers
    /\ UNCHANGED setupFrame

\* admin_users.create answers: the record is stored, the toast shown and the
\* router goes to /admin; or the call fails.
AdminCreateDone(k, ok) ==
    /\ k \in 1..Len(net) /\ net[k].kind = "adminCreate"
    /\ LET c == net[k]
       IN  /\ net' = RemoveAt(net, k)
           /\ IF ok
              THEN /\ adminUsers' = Append(adminUsers, c.user)
                   /\ console' = ""
                   /\ toast' = Toast("Admin Access Granted!", "default")
                   /\ setup' = IF c.mounted
                               THEN [setup EXCEPT ![c.user] = AdminSetupUnmounted]
                               ELSE setup
              ELSE /\ adminUsers' = adminUsers
                   /\ console' = IF c.via = "setup" THEN "Error setting up admin:"
                                                    ELSE "Error becoming admin:"
                   /\ toast' = IF c.via = "setup" THEN Toast("Setup Failed", "destructive")
                                                  ELSE Toast("Access Denied", "destructive")
                   /\ setup' = IF c.mounted
                               THEN [setup EXCEPT ![c.user].isLoading = FALSE]
                               ELSE setup
    /\ notice' = None
    /\ UNCHANGED setupFrame

\* Back to Home.
LeaveAdminSetup(u) ==
    /\ setup[u].mounted /\ ~setup[u].checkingAdmins
    /\ setup' = [setup EXCEPT ![u] = AdminSetupUnmounted]
    /\ net' = OrphanedOf(net, u)
    /\ Quiet
    /\ UNCHANGED adminUsers
    /\ UNCHANGED setupFrame

\* What a user types into the code field.
TypedCodes == {"", "bikeride2024", ADMIN_SETUP_CODE}

InitSetup ==
    /\ now = 0
    /\ tz = UtcZone
    /\ InitStore
    /\ bp = Unmounted("browse")
    /\ bm = <<>>
    /\ setup = [u \in Users |-> AdminSetupUnmounted]
    /\ views = <<>>
    /\ toast = NoToast
    /\ console = ""
    /\ notice = None
    /\ approveLog = {}

NextSetup ==
    \/ \E u \in Users : OpenAdminSetup(u)
    \/ \E u \in Users, ok \in BOOLEAN : CheckExistingAdminsDone(u, ok)
    \/ \E u \in Users, code \in TypedCodes : SetAdminCode(u, code)
    \/ \E u \in Users : HandleSetupAdmin(u, MaxAdmins)
    \/ \E u \in Users : HandleBecomeAdmin(u, MaxAdmins)
    \/ \E k \in 1..Len(net), ok \in BOOLEAN : AdminListDone(k, ok)
    \/ \E k \in 1..Len(net), ok \in BOOLEAN : AdminCreateDone(k, ok)
    \/ \E u \in Users : LeaveAdminSetup(u)

SpecSetup == InitSetup /\ [][NextSetup]_vars

\* ------------------------------------------------------ HomePage, MyRentals

\* useState defaults of the two components, each in a tab of its own.
HomePageInitial == [mounted |-> TRUE, featuredBikes |-> <<>>, loading |-> TRUE]
MyRentalsInitial ==
    [mounted |-> TRUE, user |-> None, bookings |-> <<>>, loading |-> TRUE]

\* The bikes of the store in the order a list call returns them.
BikeOrder == <<"b1", "b2", "b3", "b4">>

\* bikes.list({where: {isAvailable: "1"}, limit})
AvailableBikes(limit) ==
    LET all == SelectSeq(BikeOrder, LAMBDA b : b \in DOMAIN bikes /\ bikes[b].isAvailable = 1)
    IN  [ i \in 1..(IF Len(all) < limit THEN Len(all) ELSE limit) |-> bikes[all[i]] ]

\* bookings.list({where: {userId}, orderBy: {createdAt: 'desc'}}) with the
\* bikes joined; lost are the bookings whose bike call failed.
UserBookings(u, lost) ==
    SelectSeq(ListedBookings(lost), LAMBDA r : r.userId = u)

\* Everything but the two pages and the step's output.
viewsFrame == <<now, tz, bikes, bookings, adminUsers, net, bp, bm, setup, approveLog>>

\* The router shows /: the component mounts and loadFeaturedBikes starts.
OpenHomePage ==
    /\ ~views.home.mounted
    /\ views' = [views EXCEPT !.home = HomePageInitial]
    /\ Quiet
    /\ UNCHANGED viewsFrame

\* loadFeaturedBikes answers, or fails and is logged.
LoadFeaturedBikesDone(ok) ==
    /\ views.home.mounted /\ views.home.loading
    /\ IF ok
       THEN /\ views' = [views EXCEPT !.home.featuredBikes = AvailableBikes(FeaturedLimit),
                                      !.home.loading = FALSE]
            /\ console' = ""
       ELSE /\ views' = [views EXCEPT !.home.loading = FALSE]
            /\ console' = "Error loading featured bikes:"
    /\ toast' = NoToast
    /\ notice' = None
    /\ UNCHANGED viewsFrame

LeaveHomePage ==
    /\ views.home.mounted
    /\ views' = [views EXCEPT !.home = [HomePageInitial EXCEPT !.mounted = FALSE,
                                                               !.loading = FALSE]]
    /\ Quiet
    /\ UNCHANGED viewsFrame

\* The router shows /my-rentals to user u: the component mounts and
\* loadBookings starts.
OpenMyRentals(u) ==
    /\ ~views.rentals.mounted
    /\ views' = [views EXCEPT !.rentals = [MyRentalsInitial EXCEPT !.user = Some(u)]]
    /\ Quiet
    /\ UNCHANGED viewsFrame

\* MyRentals' loadBookings answers; a failing bike call and a failing list
\* are logged.
LoadRentalsDone(ok, lost) ==
    /\ views.rentals.mounted /\ views.rentals.loading
    /\ lost \subseteq 1..Len(bookings)
    /\ IF ok
       THEN /\ views' = [views EXCEPT
                           !.rentals.bookings = UserBookings(Val(views.rentals.user), lost),
                           !.rentals.loading = FALSE]
            /\ console' = IF lost = {} THEN "" ELSE "Error loading bike for booking:"
       ELSE /\ lost = {}
            /\ views' = [views EXCEPT !.rentals.loading = FALSE]
            /\ console' = "Error loading bookings:"
    /\ toast' = NoToast
    /\ notice' = None
    /\ UNCHANGED viewsFrame

LeaveMyRentals ==
    /\ views.rentals.mounted
    /\ views' = [views EXCEPT !.rentals = [MyRentalsInitial EXCEPT !.mounted = FALSE,
                                                                   !.loading = FALSE]]
    /\ Quiet
    /\ UNCHANGED viewsFrame

\* The customer pages and the admin's bookings page, each in its own tab,
\* over a store some bookings were made in.
InitViews ==
    /\ now = 0
    /\ tz = UtcZone
    /\ bikes = Catalogue
    /\ bookings \in Stores(MaxStored)
    /\ adminUsers = <<>>
    /\ net = <<>>
    /\ bp = Unmounted("browse")
    /\ bm = [s \in {"a1"} |-> BookingManagementInitial]
    /\ setup = <<>>
    /\ views = [home |-> HomePageInitial,
                rentals |-> [MyRentalsInitial EXCEPT !.user = Some(CustomerUser)]]
    /\ toast = NoToast
    /\ console = ""
    /\ notice = None
    /\ approveLog = {}

NextViews ==
    \/ OpenHomePage
    \/ \E ok \in BOOLEAN : LoadFeaturedBikesDone(ok)
    \/ LeaveHomePage
    \/ \E u \in Users : OpenMyRentals(u)
    \/ \E ok \in BOOLEAN, lost \in SUBSET (1..Len(bookings)) : LoadRentalsDone(ok, lost)
    \/ LeaveMyRentals
    \/ \E ok \in BOOLEAN, lost \in SUBSET (1..Len(bookings)) : LoadBookingsDone("a1", ok, lost)
    \/ \E id \in 1..Len(bookings), a \in BookingActions : HandleBookingAction("a1", id, a)
    \/ \E k \in 1..Len(net), ok \in BOOLEAN : UpdateDone(k, ok)

SpecViews == InitViews /\ [][NextViews]_vars

\* ---------------------------------------------------------- BikeManagement

\* resetForm: the fields of the bike form the handlers compute with.
EmptyBikeForm == [hourlyRate |-> None, dailyRate |-> None, isAvailable |-> TRUE]

\* useState defaults of the component; reloading says that a loadBikes call
\* started by a handler is in flight.
BikeManagementInitial ==
    [ bikes |-> <<>>, loading |-> TRUE, reloading |-> FALSE,
      editingBike |-> None, formData |-> EmptyBikeForm ]

\* bikes.list({orderBy: {createdAt: 'desc'}})
ListedBikes ==
    LET kept == SelectSeq(BikeOrder, LAMBDA b : b \in DOMAIN bikes)
    IN  [ k \in 1..Len(kept) |-> bikes[kept[Len(kept) + 1 - k]] ]

\* The snapshot lists bike id.
BikeListed(f, id) == ~f.loading /\ \E k \in 1..Len(f.bikes) : f.bikes[k].id = id

ListedBike(f, id) == f.bikes[CHOOSE k \in 1..Len(f.bikes) : f.bikes[k].id = id]

\* The data handleUpdateBike passes to bikes.update.
BikeUpdateData(form) ==
    [ hourlyRate |-> Val(form.hourlyRate), dailyRate |-> Val(form.dailyRate),
      isAvailable |-> IF form.isAvailable THEN 1 ELSE 0 ]

\* A change: deleting a bike deletes the bookings made of it.
BookingsAfterDeleteCascade(id) == SelectSeq(bookings, LAMBDA r : r.bikeId # id)

\* bikes.delete(id) leaves the collection of bookings as it is.
BookingsAfterDelete(id) == bookings

BikeCallsInFlight ==
    Len(SelectSeq(net, LAMBDA c : c.kind \in {"bikeUpdate", "bikeDelete"}))

\* Everything but the bikes page, the store's bikes and bookings, the calls
\* and the step's output.
fleetFrame == <<now, tz, adminUsers, bp, bm, setup, approveLog>>

\* loadBikes answers, or fails and is logged and toasted.
LoadBikesDone(ok) ==
    /\ views.fleet.loading \/ views.fleet.reloading
    /\ IF ok
       THEN /\ views' = [views EXCEPT !.fleet.bikes = ListedBikes,
                                      !.fleet.loading = FALSE, !.fleet.reloading = FALSE]
            /\ console' = ""
            /\ toast' = NoToast
       ELSE /\ views' = [views EXCEPT !.fleet.loading = FALSE, !.fleet.reloading = FALSE]
            /\ console' = "Error loading bikes:"
            /\ toast' = Toast("Error", "destructive")
    /\ notice' = None
    /\ UNCHANGED <<bikes, bookings, net>>
    /\ UNCHANGED fleetFrame

\* Edit is clicked on a bike's card: the form opens in the card, filled in
\* from the listed bike.
HandleEditBike(id) ==
    /\ BikeListed(views.fleet, id) /\ views.fleet.editingBike # Some(id)
    /\ LET bike == ListedBike(views.fleet, id)
       IN  views' = [views EXCEPT
                       !.fleet.editingBike = Some(id),
                       !.fleet.formData = [hourlyRate |-> Some(bike.hourlyRate),
                                           dailyRate |-> Some(bike.dailyRate),
                                           isAvailable |-> bike.isAvailable > 0]]
    /\ Quiet
    /\ UNCHANGED <<bikes, bookings, net>>
    /\ UNCHANGED fleetFrame

\* The form of the card being edited is rendered.
EditFormShown(f) == f.editingBike # None /\ BikeListed(f, Val(f.editingBike))

\* The Available for rent switch.
SetFormAvailable(v) ==
    /\ EditFormShown(views.fleet)
    /\ views' = [views EXCEPT !.fleet.formData.isAvailable = v]
    /\ Quiet
    /\ UNCHANGED <<bikes, bookings, net>>
    /\ UNCHANGED fleetFrame

\* Cancel in the edit form.
CancelEditBike ==
    /\ EditFormShown(views.fleet)
    /\ views' = [views EXCEPT !.fleet.editingBike = None, !.fleet.formData = EmptyBikeForm]
    /\ Quiet
    /\ UNCHANGED <<bikes, bookings, net>>
    /\ UNCHANGED fleetFrame

\* Update Bike is clicked.  At most cap bike calls are in flight.
HandleUpdateBike(cap) ==
    /\ EditFormShown(views.fleet)
    /\ BikeCallsInFlight < cap
    /\ net' = Append(net, [kind |-> "bikeUpdate", id |-> Val(views.fleet.editingBike),
                           data |-> BikeUpdateData(views.fleet.formData)])
    /\ Quiet
    /\ UNCHANGED <<bikes, bookings, views>>
    /\ UNCHANGED fleetFrame

\* bikes.update answers: written (the bike must still exist), the form closes
\* and loadBikes starts; or failed, logged and toasted.
BikeUpdateDone(k, ok) ==
    /\ k \in 1..Len(net) /\ net[k].kind = "bikeUpdate"
    /\ ok => net[k].id \in DOMAIN bikes
    /\ net' = RemoveAt(net, k)
    /\ IF ok
       THEN /\ bikes' = [bikes EXCEPT ![net[k].id] = Merge(@, net[k].data)]
            /\ views' = [views EXCEPT !.fleet.editingBike = None,
                                      !.fleet.formData = EmptyBikeForm,
                                      !.fleet.reloading = TRUE]
            /\ toast' = Toast("Success", "default")
            /\ console' = ""
       ELSE /\ UNCHANGED <<bikes, views>>
            /\ toast' = Toast("Error", "destructive")
            /\ console' = "Error updating bike:"
    /\ notice' = None
    /\ UNCHANGED bookings
    /\ UNCHANGED fleetFrame

\* The trash button of a bike's card is clicked and the confirm prompt is
\* answered: declined, nothing happens; accepted, bikes.delete is sent.
HandleDeleteBike(id, accepted, cap) ==
    /\ BikeListed(views.fleet, id) /\ views.fleet.editingBike # Some(id)
    /\ BikeCallsInFlight < cap
    /\ net' = IF accepted THEN Append(net, [kind |-> "bikeDelete", id |-> id]) ELSE net
    /\ Quiet
    /\ UNCHANGED <<bikes, bookings, views>>
    /\ UNCHANGED fleetFrame

\* bikes.delete answers: the bike record is gone and loadBikes starts; or
\* failed, logged and toasted.
BikeDeleteDone(k, ok) ==
    /\ k \in 1..Len(net) /\ net[k].kind = "bikeDelete"
    /\ net' = RemoveAt(net, k)
    /\ IF ok
       THEN /\ bikes' = [b \in DOMAIN bikes \ {net[k].id} |-> bikes[b]]
            /\ bookings' = BookingsAfterDelete(net[k].id)
            /\ views' = [views EXCEPT !.fleet.reloading = TRUE]
            /\ toast' = Toast("Success", "default")
            /\ console' = ""
       ELSE /\ UNCHANGED <<bikes, bookings, views>>
            /\ toast' = Toast("Error", "destructive")
            /\ console' = "Error deleting bike:"
    /\ notice' = None
    /\ UNCHANGED fleetFrame

\* ------------------------- a customer, an admin's bookings and bikes pages

\* The customer has the booking form filled in; one admin has the bookings
\* page open for approving and rejecting, and the bikes page in another tab.
InitShop ==
    /\ now = 0
    /\ tz = UtcZone
    /\ bikes = Catalogue
    /\ bookings \in Stores(MaxStored)
    /\ adminUsers = <<>>
    /\ net = <<>>
    /\ bp \in RequestedForms
    /\ bm = [s \in {"a1"} |-> BookingManagementInitial]
    /\ setup = <<>>
    /\ views = [fleet |-> BikeManagementInitial]
    /\ toast = NoToast
    /\ console = ""
    /\ notice = None
    /\ approveLog = {}

\* The customer and the bikes page.
NextFleet ==
    \/ HandleSubmit(MaxStored + 1)
    \/ \E i \in 1..Len(net), ok \in BOOLEAN : CreateDone(i, ok)
    \/ \E ok \in BOOLEAN : LoadBikesDone(ok)
    \/ \E id \in BikeIds : HandleEditBike(id)
    \/ \E v \in BOOLEAN : SetFormAvailable(v)
    \/ CancelEditBike
    \/ HandleUpdateBike(MaxBikeCalls)
    \/ \E k \in 1..Len(net), ok \in BOOLEAN : BikeUpdateDone(k, ok)
    \/ \E id \in BikeIds, accepted \in BOOLEAN : HandleDeleteBike(id, accepted, MaxBikeCalls)
    \/ \E k \in 1..Len(net), ok \in BOOLEAN : BikeDeleteDone(k, ok)

SpecFleet == InitShop /\ [][NextFleet]_vars

\* The customer, the bookings page, and bikes being deleted.
NextRecords ==
    \/ HandleSubmit(MaxStored + 1)
    \/ \E i \in 1..Len(net), ok \in BOOLEAN : CreateDone(i, ok)
    \/ \E ok \in BOOLEAN : LoadBookingsDone("a1", ok, {})
    \/ \E id \in 1..Len(bookings), a \in BookingActions : HandleBookingAction("a1", id, a)
    \/ \E k \in 1..Len(net), ok \in BOOLEAN : UpdateDone(k, ok)
    \/ \E ok \in BOOLEAN : LoadBikesDone(ok)
    \/ \E id \in BikeIds, accepted \in BOOLEAN : HandleDeleteBike(id, accepted, MaxBikeCalls)
    \/ \E k \in 1..Len(net), ok \in BOOLEAN : BikeDeleteDone(k, ok)

SpecRecords == InitShop /\ [][NextRecords]_vars

\* The rentals page and the admin's bookings page over a store of two
\* bookings, and the bikes page in a further tab, where bikes are deleted.
InitLists ==
    /\ now = 0
    /\ tz = UtcZone
    /\ bikes = Catalogue
    /\ bookings \in Stores(MaxStored + 1) \ Stores(MaxStored)
    /\ adminUsers = <<>>
    /\ net = <<>>
    /\ bp = Unmounted("browse")
    /\ bm = [s \in {"a1"} |-> BookingManagementInitial]
    /\ setup = <<>>
    /\ views = [rentals |-> [MyRentalsInitial EXCEPT !.user = Some(CustomerUser)],
                fleet |-> BikeManagementInitial]
    /\ toast = NoToast
    /\ console = ""
    /\ notice = None
    /\ approveLog = {}

NextLists ==
    \/ \E u \in Users : OpenMyRentals(u)
    \/ \E ok \in BOOLEAN, lost \in SUBSET (1..Len(bookings)) : LoadRentalsDone(ok, lost)
    \/ LeaveMyRentals
    \/ \E ok \in BOOLEAN, lost \in SUBSET (1..Len(bookings)) : LoadBookingsDone("a1", ok, lost)
    \/ \E ok \in BOOLEAN : LoadBikesDone(ok)
    \/ \E id \in BikeIds, accepted \in BOOLEAN : HandleDeleteBike(id, accepted, MaxBikeCalls)
    \/ \E k \in 1..Len(net), ok \in BOOLEAN : BikeDeleteDone(k, ok)

SpecLists == InitLists /\ [][NextLists]_vars

\* ------------------------------------------------------------- BrowseBikes

\* String.prototype.toLowerCase, character by character.
LowerCase == <<"a", "b", "c", "d", "e", "f", "g", "h", "i", "j", "k", "l", "m",
               "n", "o", "p", "q", "r", "s", "t", "u", "v", "w", "x", "y", "z">>
UpperCase == <<"A", "B", "C", "D", "E", "F", "G", "H", "I", "J", "K", "L", "M",
               "N", "O", "P", "Q", "R", "S", "T", "U", "V", "W", "X", "Y", "Z">>
IsUpper(c) == \E i \in 1..Len(UpperCase) : UpperCase[i] = c
ToLowerChar(c) ==
    IF IsUpper(c) THEN LowerCase[CHOOSE i \in 1..Len(UpperCase) : UpperCase[i] = c] ELSE c
toLowerCase(t) == [ i \in 1..Len(t) |-> ToLowerChar(t[i]) ]

\* String.prototype.includes
includes(t, s) ==
    \E i \in 0..(Len(t) - Len(s)) : SubSeq(t, i + 1, i + Len(s)) = s

\* The place of a character in the alphabet, whatever its case; 0 for any
\* other character.
Rank(c) ==
    IF \E i \in 1..Len(LowerCase) : LowerCase[i] = ToLowerChar(c)
    THEN CHOOSE i \in 1..Len(LowerCase) : LowerCase[i] = ToLowerChar(c)
    ELSE 0

\* The first place where two texts differ in a letter (in its case, when
\* strict), or 0.
RECURSIVE FirstDifference(_, _, _, _)
FirstDifference(a, b, i, strict) ==
    IF i > Len(a) \/ i > Len(b) THEN 0
    ELSE IF (IF strict THEN a[i] # b[i] ELSE Rank(a[i]) # Rank(b[i])) THEN i
    ELSE FirstDifference(a, b, i + 1, strict)

\* String.prototype.localeCompare: alphabetical whatever the case, a shorter
\* text before its extensions; texts that differ in case only, the one with
\* the lower-case letter first.
localeCompare(a, b) ==
    LET d == FirstDifference(a, b, 1, FALSE)
        e == FirstDifference(a, b, 1, TRUE)
    IN  IF d # 0 THEN Rank(a[d]) - Rank(b[d])
        ELSE IF Len(a) # Len(b) THEN Len(a) - Len(b)
        ELSE IF e = 0 THEN 0
        ELSE IF IsUpper(a[e]) THEN 1 ELSE -1

\* The comparator of the sort (BrowseBikes' effect).
CompareBikes(sortBy, a, b) ==
    CASE sortBy = "price-low" -> a.hourlyRate - b.hourlyRate
      [] sortBy = "price-high" -> b.hourlyRate - a.hourlyRate
      [] sortBy = "type" -> localeCompare(a.type, b.type)
      [] OTHER -> localeCompare(a.name, b.name)

\* Array.prototype.sort: a stable sort under the comparator.
RECURSIVE Insert(_, _, _)
Insert(sorted, x, sortBy) ==
    IF sorted = <<>> THEN <<x>>
    ELSE IF CompareBikes(sortBy, sorted[Len(sorted)], x) <= 0 THEN Append(sorted, x)
    ELSE Append(Insert(SubSeq(sorted, 1, Len(sorted) - 1), x, sortBy), sorted[Len(sorted)])

RECURSIVE Sort(_, _)
Sort(s, sortBy) ==
    IF s = <<>> THEN <<>>
    ELSE Insert(Sort(SubSeq(s, 1, Len(s) - 1), sortBy), s[Len(s)], sortBy)

All == <<"a", "l", "l">>

\* A slip: the search term is not looked at.
SearchIgnored(bike, searchTerm) == TRUE

\* The search filter of the effect.
SearchMatches(bike, searchTerm) ==
    \/ includes(toLowerCase(bike.name), toLowerCase(searchTerm))
    \/ includes(toLowerCase(bike.type), toLowerCase(searchTerm))
    \/ includes(toLowerCase(bike.description), toLowerCase(searchTerm))

\* The type filter of the effect.
TypeMatches(bike, selectedType) == toLowerCase(bike.type) = toLowerCase(selectedType)

\* The effect creates a new array: a filter is applied.
Filters(p) == p.searchTerm # <<>> \/ p.selectedType # All

\* The array the effect ends with, before it is sorted.
Filtered(p) ==
    LET bySearch == IF p.searchTerm # <<>>
                    THEN SelectSeq(p.bikes, LAMBDA b : SearchMatches(b, p.searchTerm))
                    ELSE p.bikes
    IN  IF p.selectedType # All
        THEN SelectSeq(bySearch, LAMBDA b : TypeMatches(b, p.selectedType))
        ELSE bySearch

\* useState defaults of the component.  bikes and filteredBikes hold arrays:
\* shared says that they hold the same array, which the effect sorts in
\* place; shown is the list of cards of the last render.
BrowseBikesInitial ==
    [ bikes |-> <<>>, filteredBikes |-> <<>>, shared |-> FALSE, loading |-> TRUE,
      searchTerm |-> <<>>, selectedType |-> All, sortBy |-> "name", shown |-> <<>> ]

\* A render with state p, and the effect on [bikes, searchTerm, selectedType,
\* sortBy] after it.  Without a filter the effect sorts the array of bikes
\* itself and sets filteredBikes to it: when filteredBikes holds that array
\* already, nothing is rendered again, and the cards stay as they were
\* rendered before the sort.  Otherwise filteredBikes gets another array and
\* the cards are rendered from it.
RenderThenEffect(p) ==
    LET rendered == IF p.loading THEN <<>> ELSE p.filteredBikes
        sorted == Sort(Filtered(p), p.sortBy)
    IN  IF ~Filters(p)
        THEN [p EXCEPT !.bikes = sorted, !.filteredBikes = sorted, !.shared = TRUE,
                       !.shown = IF p.shared \/ p.loading THEN rendered ELSE sorted]
        ELSE [p EXCEPT !.filteredBikes = sorted, !.shared = FALSE,
                       !.shown = IF p.loading THEN <<>> ELSE sorted]

\* Everything but the page and the step's output.
browseFrame == <<now, tz, bikes, bookings, adminUsers, net, bp, bm, setup, approveLog>>

\* BrowseBikes' loadBikes answers: both states get the one array listed; or
\* it fails and is logged.
LoadBrowseBikesDone(ok) ==
    /\ views.browse.loading
    /\ IF ok
       THEN /\ views' = [views EXCEPT !.browse = RenderThenEffect(
                           [@ EXCEPT !.bikes = AvailableBikes(Len(BikeOrder)),
                                     !.filteredBikes = AvailableBikes(Len(BikeOrder)),
                                     !.shared = TRUE, !.loading = FALSE])]
            /\ console' = ""
       ELSE /\ views' = [views EXCEPT !.browse.loading = FALSE,
                                      !.browse.shown = views.browse.filteredBikes]
            /\ console' = "Error loading bikes:"
    /\ toast' = NoToast
    /\ notice' = None
    /\ UNCHANGED browseFrame

SetSearchTerm(t) ==
    /\ t # views.browse.searchTerm
    /\ views' = [views EXCEPT !.browse = RenderThenEffect([@ EXCEPT !.searchTerm = t])]
    /\ Quiet
    /\ UNCHANGED browseFrame

\* The options of the type select: all, and the types of the loaded bikes in
\* lower case.
TypeOptions(p) == {All} \cup { toLowerCase(p.bikes[k].type) : k \in 1..Len(p.bikes) }

SetSelectedType(t) ==
    /\ t \in TypeOptions(views.browse) /\ t # views.browse.selectedType
    /\ views' = [views EXCEPT !.browse = RenderThenEffect([@ EXCEPT !.selectedType = t])]
    /\ Quiet
    /\ UNCHANGED browseFrame

SetSortBy(k) ==
    /\ k # views.browse.sortBy
    /\ views' = [views EXCEPT !.browse = RenderThenEffect([@ EXCEPT !.sortBy = k])]
    /\ Quiet
    /\ UNCHANGED browseFrame

SortKeys == {"name", "type", "price-low", "price-high"}

\* What the customer types into the search box.
TypedTerms == {<<>>, <<"r", "o">>, <<"T">>, <<"x">>}

\* A store of three available bikes and one that is not, listed in the order
\* they were added.
Showroom ==
    [ b \in {"b1", "b2", "b3", "b4"} |->
        CASE b = "b1" -> [id |-> "b1", name |-> <<"T", "r", "e", "k">>,
                          type |-> <<"R", "o", "a", "d">>,
                          description |-> <<"f", "a", "s", "t">>,
                          hourlyRate |-> 2500, dailyRate |-> 15000, isAvailable |-> 1]
          [] b = "b2" -> [id |-> "b2", name |-> <<"O", "m", "a">>,
                          type |-> <<"C", "i", "t", "y">>,
                          description |-> <<"t", "o", "w", "n">>,
                          hourlyRate |-> 1255, dailyRate |-> 9999, isAvailable |-> 1]
          [] b = "b3" -> [id |-> "b3", name |-> <<"a", "t", "o", "m">>,
                          type |-> <<"r", "o", "a", "d">>,
                          description |-> <<"T", "r", "a", "i", "l">>,
                          hourlyRate |-> 3000, dailyRate |-> 20000, isAvailable |-> 1]
          [] OTHER    -> [id |-> "b4", name |-> <<"R", "o", "x">>,
                          type |-> <<"C", "i", "t", "y">>,
                          description |-> <<>>,
                          hourlyRate |-> 500, dailyRate |-> 4000, isAvailable |-> 0] ]

\* The page is mounted (its first render and effect are done) and loadBikes
\* is in flight.
InitBrowse ==
    /\ now = 0
    /\ tz = UtcZone
    /\ bikes \in {Catalogue, Showroom}
    /\ bookings = <<>>
    /\ adminUsers = <<>>
    /\ net = <<>>
    /\ bp = Unmounted("browse")
    /\ bm = <<>>
    /\ setup = <<>>
    /\ views = [browse |-> RenderThenEffect(BrowseBikesInitial)]
    /\ toast = NoToast
    /\ console = ""
    /\ notice = None
    /\ approveLog = {}

NextBrowse ==
    \/ \E ok \in BOOLEAN : LoadBrowseBikesDone(ok)
    \/ \E t \in TypedTerms : SetSearchTerm(t)
    \/ \E t \in TypeOptions(views.browse) : SetSelectedType(t)
    \/ \E k \in SortKeys : SetSortBy(k)

SpecBrowse == InitBrowse /\ [][NextBrowse]_vars

\* --------------------------------------------------------------------- App

\* useState defaults of App.
AppInitial == [ user |-> None, loading |-> TRUE, isAdmin |-> FALSE ]

\* The admin routes are in the route table: App is past its loading screen
\* and its sign-in screen, and isAdmin is set.
AdminRoutesRegistered(a) == ~a.loading /\ a.user # None /\ a.isAdmin

\* adminUsers.list({where: {userId}}).length > 0
HasAdminRecord(u) == \E i \in 1..Len(adminUsers) : adminUsers[i] = u

ChecksInFlight == Len(SelectSeq(net, LAMBDA c : c.kind = "adminCheck"))

\* Everything but App's state, the calls in flight and the step's output.
appFrame == <<now, tz, bikes, bookings, adminUsers, bp, bm, setup, approveLog>>

\* The callback of onAuthStateChanged: user and loading are taken from the
\* state; with a user, checkAdminStatus is started and not awaited.  isAdmin
\* is left as it is.
AuthStateChanged(u, isLoading, cap) ==
    /\ u # None => ChecksInFlight < cap
    /\ views' = [views EXCEPT !.app.user = u, !.app.loading = isLoading]
    /\ net' = IF u # None THEN Append(net, [kind |-> "adminCheck", userId |-> Val(u)])
                          ELSE net
    /\ Quiet
    /\ UNCHANGED appFrame

\* The list call of a checkAdminStatus answers, or fails.
CheckAdminStatusDone(k, ok) ==
    /\ k \in 1..Len(net) /\ net[k].kind = "adminCheck"
    /\ views' = [views EXCEPT !.app.isAdmin = IF ok THEN HasAdminRecord(net[k].userId) ELSE FALSE]
    /\ net' = RemoveAt(net, k)
    /\ console' = IF ok THEN "" ELSE "Error checking admin status:"
    /\ toast' = NoToast
    /\ notice' = None
    /\ UNCHANGED appFrame

\* What the auth client reports: still loading, signed out, or a user.
AuthStates ==
    {[user |-> None, isLoading |-> TRUE], [user |-> None, isLoading |-> FALSE]}
        \cup { [user |-> Some(u), isLoading |-> FALSE] : u \in Users }

\* The admin records there are: none, one of u1, or one of each user.
InitApp ==
    /\ now = 0
    /\ tz = UtcZone
    /\ bikes = Catalogue
    /\ bookings = <<>>
    /\ adminUsers \in {<<>>, <<"u1">>, <<"u1", "u2">>}
    /\ net = <<>>
    /\ bp = Unmounted("browse")
    /\ bm = <<>>
    /\ setup = <<>>
    /\ views = [app |-> AppInitial]
    /\ toast = NoToast
    /\ console = ""
    /\ notice = None
    /\ approveLog = {}

NextApp ==
    \/ \E s \in AuthStates : AuthStateChanged(s.user, s.isLoading, MaxChecks)
    \/ \E k \in 1..Len(net), ok \in BOOLEAN : CheckAdminStatusDone(k, ok)

SpecApp == InitApp /\ [][NextApp]_vars

\* ---------------------------------------------------------- AdminDashboard

\* The calendar Date.prototype.getMonth and getFullYear read, made of twelve
\* months of thirty days.
DaysPerMonth == 30
MonthsPerYear == 12
HoursPerMonth == HoursPerDay * DaysPerMonth
HoursPerYear == HoursPerMonth * MonthsPerYear

\* new Date(instant).getMonth() and .getFullYear(), in local time.
getMonth(z, u) == (LocalTime(z, u) \div HoursPerMonth) % MonthsPerYear
getFullYear(z, u) == LocalTime(z, u) \div HoursPerYear

\* useState defaults of the component.
AdminDashboardInitial ==
    [ stats |-> [ totalBikes |-> 0, availableBikes |-> 0, totalBookings |-> 0,
                  pendingBookings |-> 0, totalRevenue |-> 0, monthlyRevenue |-> 0 ],
      loading |-> TRUE ]

\* A slip: every booking that was not rejected counts as revenue.
CountsUnlessRejected(booking) == booking.status # "rejected"

\* The bookings that count as revenue.
CountsAsRevenue(booking) == booking.status = "approved" \/ booking.status = "completed"

\* The filter of the monthly revenue.
InCurrentMonth(z, booking) ==
    /\ getMonth(z, booking.createdAt) = getMonth(z, now)
    /\ getFullYear(z, booking.createdAt) = getFullYear(z, now)
    /\ CountsAsRevenue(booking)

\* list.reduce((sum, booking) => sum + booking.totalAmount, 0)
RECURSIVE SumAmounts(_)
SumAmounts(list) ==
    IF list = <<>> THEN 0
    ELSE SumAmounts(SubSeq(list, 1, Len(list) - 1)) + list[Len(list)].totalAmount

\* The stats loadDashboardStats computes from the two lists.
DashboardStats(z, allBikes, allBookings) ==
    [ totalBikes |-> Cardinality(DOMAIN allBikes),
      availableBikes |-> Cardinality({ b \in DOMAIN allBikes : allBikes[b].isAvailable > 0 }),
      totalBookings |-> Len(allBookings),
      pendingBookings |-> Len(SelectSeq(allBookings, LAMBDA b : b.status = "pending")),
      totalRevenue |-> SumAmounts(SelectSeq(allBookings, CountsAsRevenue)),
      monthlyRevenue |-> SumAmounts(SelectSeq(allBookings, LAMBDA b : InCurrentMonth(z, b))) ]

\* Everything but the page, the clock and the step's output.
dashboardFrame == <<tz, bikes, bookings, adminUsers, net, bp, bm, setup, approveLog>>

\* The router shows /admin: the component mounts and loads its stats.
OpenAdminDashboard ==
    /\ views.dash = None
    /\ views' = [views EXCEPT !.dash = Some(AdminDashboardInitial)]
    /\ Quiet
    /\ UNCHANGED now
    /\ UNCHANGED dashboardFrame

\* loadDashboardStats: the two list calls answer, or one fails and is logged.
LoadDashboardStatsDone(ok) ==
    /\ views.dash # None /\ Val(views.dash).loading
    /\ IF ok
       THEN /\ views' = [views EXCEPT !.dash =
                           Some([stats |-> DashboardStats(tz, bikes, bookings),
                                 loading |-> FALSE])]
            /\ console' = ""
       ELSE /\ views' = [views EXCEPT !.dash = Some([Val(@) EXCEPT !.loading = FALSE])]
            /\ console' = "Error loading dashboard stats:"
    /\ toast' = NoToast
    /\ notice' = None
    /\ UNCHANGED now
    /\ UNCHANGED dashboardFrame

\* The admin goes to another page.
LeaveAdminDashboard ==
    /\ views.dash # None
    /\ views' = [views EXCEPT !.dash = None]
    /\ Quiet
    /\ UNCHANGED now
    /\ UNCHANGED dashboardFrame

\* The instants of this exploration: around the turn of a month, and the
\* same month a year later.
DashboardTimes == {0, HoursPerMonth - 1, HoursPerMonth, HoursPerYear + HoursPerMonth}

\* Time passes.
ClockAdvances(t) ==
    /\ t > now
    /\ now' = t
    /\ Quiet
    /\ UNCHANGED views
    /\ UNCHANGED dashboardFrame

\* A stored booking as the dashboard reads it: a record handleSubmit created,
\* with the status the admin pages gave it and the createdAt of the store.
WithCreatedAt(r, status, t) ==
    [ f \in DOMAIN r \cup {"createdAt"} |->
        IF f = "createdAt" THEN t ELSE IF f = "status" THEN status ELSE r[f] ]

BookingStatuses == {"pending", "approved", "rejected", "completed"}

DatedBookings ==
    { WithCreatedAt(NewBooking(f, UtcZone), s, t) :
        f \in { g \in RequestedForms : g.bookingType = "instant" },
        s \in BookingStatuses, t \in DashboardTimes }

InitDashboard ==
    /\ now \in DashboardTimes
    /\ tz \in Zones
    /\ bikes = Catalogue
    /\ bookings \in UNION { [1..k -> DatedBookings] : k \in 0..(MaxStored + 1) }
    /\ adminUsers = <<"u1">>
    /\ net = <<>>
    /\ bp = Unmounted("browse")
    /\ bm = <<>>
    /\ setup = <<>>
    /\ views = [dash |-> None]
    /\ toast = NoToast
    /\ console = ""
    /\ notice = None
    /\ approveLog = {}

NextDashboard ==
    \/ OpenAdminDashboard
    \/ \E ok \in BOOLEAN : LoadDashboardStatsDone(ok)
    \/ LeaveAdminDashboard
    \/ \E t \in DashboardTimes : ClockAdvances(t)

SpecDashboard == InitDashboard /\ [][NextDashboard]_vars

\* ================================================================= claims

Abs(x) == IF x < 0 THEN -x ELSE x

\* The creates a step issues.
Issued == { net'[i].rec : i \in (Len(net) + 1)..Len(net') }

\* The records a step adds to the store.
Stored == { bookings'[i] : i \in (Len(bookings) + 1)..Len(bookings') }

\* C1: every booking record the booking page stores is 'approved' if it is
\* an instant booking and 'pending' if it is a pre-reservation, and it is one
\* of the two.
C1_InitialStatusByType ==
    [][\A r \in Stored :
          /\ r.bookingType \in BookingTypes
          /\ r.bookingType = "instant" => r.status = "approved"
          /\ r.bookingType = "pre_reservation" => r.status = "pending"]_vars

C1_BothKindsStored ==
    \E i, j \in 1..Len(bookings) :
        /\ bookings[i].bookingType = "instant" /\ bookings[i].status = "approved"
        /\ bookings[j].bookingType = "pre_reservation" /\ bookings[j].status = "pending"

\* C4 (as amended): for every bike and every duration from 1 to 30 the
\* totalAmount handleSubmit writes is hourlyRate x duration for hours and
\* dailyRate x duration for days, and the booking summary shows that amount
\* rounded to the nearest cent.
C4_TotalIsRateTimesDuration ==
    [][\A r \in Issued :
          /\ bp.duration \in MinDuration..MaxDuration
          /\ bp.durationType = "hours" =>
                r.totalAmount = bikes[r.bikeId].hourlyRate * bp.duration
          /\ bp.durationType = "days" =>
                r.totalAmount = bikes[r.bikeId].dailyRate * bp.duration
          /\ 2 * Abs(MillsPerCent * SummaryTotal(bp) - r.totalAmount) <= MillsPerCent]_vars

\* C4 as stated: ... and the amount written equals the total the summary shows.
C4_TotalEqualsSummary ==
    [][\A r \in Issued :
          /\ bp.durationType = "hours" =>
                r.totalAmount = bikes[r.bikeId].hourlyRate * bp.duration
          /\ bp.durationType = "days" =>
                r.totalAmount = bikes[r.bikeId].dailyRate * bp.duration
          /\ MillsPerCent * SummaryTotal(bp) = r.totalAmount]_vars

C4_ThirtyDaysStored ==
    \E i \in 1..Len(bookings) :
        /\ bookings[i].bikeId = "b2"
        /\ bookings[i].totalAmount = Catalogue["b2"].dailyRate * MaxDuration

\* C5 as stated: the endDate handleSubmit writes is the startDate plus
\* exactly duration hours, or plus exactly duration days (24 hours each, or
\* the same wall-clock time duration calendar days later), and it is later
\* than the startDate.
C5_EndIsStartPlusDuration ==
    [][\A r \in Issued :
          /\ bp.durationType = "hours" => r.endDate = r.startDate + bp.duration
          /\ bp.durationType = "days" =>
                \/ r.endDate = r.startDate + HoursPerDay * bp.duration
                \/ LocalTime(tz, r.endDate)
                     = LocalTime(tz, r.startDate) + HoursPerDay * bp.duration
          /\ r.endDate > r.startDate]_vars

MountedCreates == Len(SelectSeq(net, LAMBDA c : c.kind = "create" /\ c.mounted))

\* C6: a submission whose create succeeds adds exactly one record to the
\* store, one whose create fails adds none, nothing else adds a record, and
\* while the page's submitting flag is set the page issues no further create.
C6_OneRecordPerSubmission ==
    [][/\ toast'.title = "Booking submitted!" =>
             /\ Len(bookings') = Len(bookings) + 1
             /\ SubSeq(bookings', 1, Len(bookings)) = bookings
       /\ toast'.title = "Booking failed" => bookings' = bookings
       /\ bookings' # bookings => toast'.title = "Booking submitted!"
       /\ bp.submitting => Issued = {}
       /\ MountedCreates <= 1]_vars

C6_SecondSubmissionInFlight ==
    /\ Len(bookings) = 1
    /\ bp.submitting
    /\ MountedCreates = 1

Overlap(a, b) == a.startDate < b.endDate /\ b.startDate < a.endDate

\* C9: a submission is never held back by the bookings in the store: with
\* the form shown, valid and idle and the user loaded, submitting issues a
\* create, and a create that succeeds stores its record, whatever bookings
\* of the same bike the store holds.
C9_NeverBlockedByOverlap ==
    /\ ( /\ FormShown(bp) /\ ~bp.submitting /\ FormValid(bp) /\ bp.user # None
         /\ Len(bookings) + CreatesInFlight < MaxBookings )
       => ENABLED (HandleSubmit(MaxBookings) /\ Len(net') = Len(net) + 1)
    /\ \A i \in 1..Len(net) :
          net[i].kind = "create" =>
             ENABLED (CreateDone(i, TRUE) /\ bookings' = Append(bookings, net[i].rec))

C9_DoubleBooked ==
    \E i, j \in 1..Len(bookings) :
        /\ i < j
        /\ bookings[i].bikeId = bookings[j].bikeId
        /\ bookings[i].status = "approved" /\ bookings[j].status = "approved"
        /\ Overlap(bookings[i], bookings[j])

\* The update calls a step writes to the store.
AppliedUpdates ==
    { k \in 1..Len(net) :
        /\ net[k].kind = "update"
        /\ net' = RemoveAt(net, k)
        /\ toast' = Toast("Success", "default") }

\* C2 as stated: a booking created as a pre-reservation has status
\* 'approved' or 'completed' only if an approve update was written to it
\* earlier.
C2_PreReservationNeedsApprove ==
    \A i \in 1..Len(bookings) :
        (bookings[i].bookingType = "pre_reservation"
            /\ bookings[i].status \in {"approved", "completed"})
        => i \in approveLog

\* The step changes, of booking id, at most the fields named, and no other
\* booking.
ChangesOnly(id, fields) ==
    /\ Len(bookings') = Len(bookings)
    /\ \A j \in 1..Len(bookings) : j # id => bookings'[j] = bookings[j]
    /\ \A f \in DOMAIN bookings[id] \ fields : bookings'[id][f] = bookings[id][f]

\* C7 (as amended): a delivery update changes only deliveryStatus,
\* deliveredAt, bikeNumber and updatedAt, and so never the status; a return
\* update changes only returnStatus, returnedAt and updatedAt, except that a
\* return update to 'returned' also sets the status to 'completed'; an
\* approve or reject changes only status and updatedAt.
C7_FieldWritesByUpdate ==
    [][ \A k \in AppliedUpdates :
          LET c == net[k]
              returned == bookings'[c.id].returnStatus = Some("returned")
          IN  CASE c.via = "delivery" ->
                     ChangesOnly(c.id, {"deliveryStatus", "deliveredAt", "bikeNumber",
                                        "updatedAt"})
                [] c.via = "return" ->
                     /\ ChangesOnly(c.id, {"returnStatus", "returnedAt", "updatedAt"}
                                            \cup (IF returned THEN {"status"} ELSE {}))
                     /\ returned => bookings'[c.id].status = "completed"
                [] OTHER ->
                     ChangesOnly(c.id, {"status", "updatedAt"}) ]_vars

\* C7 as stated: ... a return update changes only returnStatus, returnedAt
\* and updatedAt; neither a delivery nor a return update changes the status.
C7_IndependentFieldWrites ==
    [][ \A k \in AppliedUpdates :
          LET c == net[k]
          IN  CASE c.via = "delivery" ->
                     ChangesOnly(c.id, {"deliveryStatus", "deliveredAt", "bikeNumber",
                                        "updatedAt"})
                [] c.via = "return" ->
                     ChangesOnly(c.id, {"returnStatus", "returnedAt", "updatedAt"})
                [] OTHER ->
                     ChangesOnly(c.id, {"status", "updatedAt"}) ]_vars

\* An approved booking, delivered with a bike number, returned and thereby
\* completed.
C7_ApprovedDeliveredReturned ==
    \E i \in 1..Len(bookings) :
        /\ bookings[i].bookingType = "pre_reservation"
        /\ i \in approveLog
        /\ bookings[i].deliveryStatus = Some("delivered")
        /\ bookings[i].bikeNumber = Some("BK001")
        /\ bookings[i].returnStatus = Some("returned")
        /\ bookings[i].status = "completed"

\* C10: an approve or reject that reaches the store is written whatever the
\* stored status is by then: no update in flight can be refused for the state
\* of the store, and after the write the stored status is the one that
\* update carries, so of two the later one stands.
C10_LastWriteWins ==
    [][ /\ \A k \in 1..Len(net) : net[k].kind = "update" => ENABLED UpdateDone(k, TRUE)
        /\ \A k \in AppliedUpdates :
             bookings'[net[k].id].status =
                 (IF net[k].via = "approve" THEN "approved" ELSE "rejected") ]_vars

\* Both admins still list the booking as pending; one's approve was written
\* and the other's reject after it.
C10_RejectedOverApproved ==
    \E i \in 1..Len(bookings) :
        /\ i \in approveLog
        /\ bookings[i].status = "rejected"
        /\ \A s \in Admins :
             /\ s \in DOMAIN bm
             /\ Find(bm[s].bookings, i) # None
             /\ Val(Find(bm[s].bookings, i)).status = "pending"
        /\ toast = Toast("Success", "default")

\* The admin creates a step issues.
IssuedAdminCreates ==
    { k \in 1..Len(net') :
        /\ net'[k].kind = "adminCreate"
        /\ (k > Len(net) \/ net[k].kind # "adminCreate") }

\* C3 as stated: the page sends an admin_users create for a user only when
\* the code that user has entered equals the setup constant.
C3_InsertOnlyAfterCode ==
    [][ \A k \in IssuedAdminCreates :
          setup[net'[k].user].adminCode = ADMIN_SETUP_CODE ]_vars

\* C8 as stated: a step in which a store call fails (the step logs the
\* error) shows a destructive toast.
C8_EveryFailureToasted ==
    console # "" => toast.variant = "destructive"

\* C11: every stored booking's status is one of pending, approved, rejected,
\* completed, cancelled; its deliveryStatus, when set, one of pending,
\* in_transit, delivered; its returnStatus, when set, one of not_returned,
\* overdue, returned.
C11_StatusDomains ==
    \A i \in 1..Len(bookings) :
        /\ bookings[i].status \in {"pending", "approved", "rejected", "completed", "cancelled"}
        /\ bookings[i].deliveryStatus # None =>
             Val(bookings[i].deliveryStatus) \in {"pending", "in_transit", "delivered"}
        /\ bookings[i].returnStatus # None =>
             Val(bookings[i].returnStatus) \in {"not_returned", "overdue", "returned"}

\* A booking rejected after both its delivery and its return status were set.
C11_AllThreeWritten ==
    \E i \in 1..Len(bookings) :
        /\ bookings[i].status = "rejected"
        /\ bookings[i].deliveryStatus = Some("in_transit")
        /\ bookings[i].returnStatus = Some("overdue")

\* The fields of a booking no update writes.
CreationFields == {"userId", "bikeId", "bookingType", "startDate", "endDate", "totalAmount"}

\* C12: no step removes a booking: every booking of the store stays in it, as
\* the same booking (its id and what it was created with), with the same set
\* of fields.
C12_NoBookingRemoved ==
    [][ /\ Len(bookings') >= Len(bookings)
        /\ \A i \in 1..Len(bookings) :
             /\ DOMAIN bookings'[i] = DOMAIN bookings[i]
             /\ \A f \in CreationFields : bookings'[i][f] = bookings[i][f] ]_vars

\* The bike of the first booking is deleted, the booking was rejected, and
\* another booking was created.
C12_KeptThroughEverything ==
    /\ Len(bookings) = MaxStored + 1
    /\ bookings[1].bikeId \notin DOMAIN bikes
    /\ bookings[1].status = "rejected"

\* The bike deletes a step writes to the store.
AppliedDeletes ==
    { k \in 1..Len(net) :
        /\ net[k].kind = "bikeDelete"
        /\ net' = RemoveAt(net, k)
        /\ toast' = Toast("Success", "default") }

\* C13: a bike record disappears only in a step that applies a delete sent
\* after an accepted prompt; that step removes that bike alone and leaves
\* every booking as it was; a declined prompt changes nothing.
C13_DeleteRemovesOnlyTheBike ==
    [][ /\ \A k \in AppliedDeletes :
             /\ DOMAIN bikes' = DOMAIN bikes \ {net[k].id}
             /\ \A b \in DOMAIN bikes' : bikes'[b] = bikes[b]
             /\ bookings' = bookings
        /\ DOMAIN bikes' # DOMAIN bikes => AppliedDeletes # {}
        /\ \A id \in BikeIds :
             /\ HandleDeleteBike(id, FALSE, MaxBikeCalls) => UNCHANGED <<bikes, bookings, net>>
             /\ (\E k \in 1..Len(net') : k > Len(net) /\ net'[k].kind = "bikeDelete"
                                         /\ net'[k].id = id)
                  => HandleDeleteBike(id, TRUE, MaxBikeCalls) ]_vars

\* A bike is gone and a booking made of it is still stored.
C13_BookingOfDeletedBike ==
    /\ toast = Toast("Success", "default")
    /\ \E i \in 1..Len(bookings) : bookings[i].bikeId \notin DOMAIN bikes

\* The bookings a list shows, by id.
ListedIds(rows) == { rows[k].id : k \in 1..Len(rows) }

\* The list is right for the store it was loaded from: it shows exactly the
\* bookings wanted, titles a booking whose bike does not exist 'Unknown
\* Bike', and titles every other booking either by its bike's name or, when
\* its bike could not be loaded, 'Unknown Bike'.
ListsEvery(rows, wanted) ==
    /\ ListedIds(rows) = wanted
    /\ \A k \in 1..Len(rows) :
         IF rows[k].bikeId \notin DOMAIN bikes
         THEN CardTitle(rows[k]) = UnknownBike
         ELSE CardTitle(rows[k]) \in {bikes[rows[k].bikeId].name, UnknownBike}

\* C14: a list that loads shows every booking (MyRentals: every booking of
\* the user), whether or not its bike exists and whichever bike calls
\* failed, and a booking without a bike record is titled 'Unknown Bike'.
C14_ListedWithoutBike ==
    [][ /\ (views.rentals.loading /\ ~views'.rentals.loading
              /\ views'.rentals.mounted /\ console' # "Error loading bookings:")
           => ListsEvery(views'.rentals.bookings,
                         { i \in 1..Len(bookings) :
                             bookings[i].userId = Val(views.rentals.user) })
        /\ ((bm["a1"].loading \/ bm["a1"].reloading)
              /\ ~bm'["a1"].loading /\ ~bm'["a1"].reloading
              /\ console' # "Error loading bookings:")
           => ListsEvery(bm'["a1"].bookings, 1..Len(bookings)) ]_vars

\* The rentals list shows a booking of a deleted bike; the admin's list shows
\* two bookings, one whose bike call failed and one with its bike.
C14_UnknownBikeListed ==
    /\ \E k \in 1..Len(views.rentals.bookings) :
         /\ views.rentals.bookings[k].bikeId \notin DOMAIN bikes
         /\ CardTitle(views.rentals.bookings[k]) = UnknownBike
    /\ Len(bm["a1"].bookings) = MaxStored + 1
    /\ \E j, k \in 1..Len(bm["a1"].bookings) :
         /\ bm["a1"].bookings[j].bike = None
         /\ bm["a1"].bookings[k].bike # None

\* The term occurs in the text, whatever the case of the letters.
Within(term, text) ==
    \E k \in 1..(Len(text) + 1 - Len(term)) :
        \A i \in 1..Len(term) : ToLowerChar(text[k + i - 1]) = ToLowerChar(term[i])

\* A loaded bike the search term and the selected type ask for.
Wanted(b, p) ==
    /\ Within(p.searchTerm, b.name) \/ Within(p.searchTerm, b.type)
       \/ Within(p.searchTerm, b.description)
    /\ p.selectedType = All \/ toLowerCase(b.type) = toLowerCase(p.selectedType)

Elements(list) == { list[k] : k \in 1..Len(list) }

\* Each element is at or before its successors under the sort key.
Ordered(list, sortBy) ==
    \A i, j \in 1..Len(list) : i < j =>
        CASE sortBy = "price-low" -> list[i].hourlyRate <= list[j].hourlyRate
          [] sortBy = "price-high" -> list[i].hourlyRate >= list[j].hourlyRate
          [] sortBy = "type" -> localeCompare(list[i].type, list[j].type) <= 0
          [] OTHER -> localeCompare(list[i].name, list[j].name) <= 0

\* C15: once the bikes are loaded, the catalog on the page is exactly the
\* loaded bikes that contain the search term in their name, type or
\* description and are of the selected type (any type for 'all'), each once,
\* in the order of the selected sort key.
C15_CatalogFilteredAndOrdered ==
    LET p == views.browse
    IN  ~p.loading =>
            /\ Elements(p.shown) = { b \in Elements(p.bikes) : Wanted(b, p) }
            /\ Cardinality(Elements(p.shown)) = Len(p.shown)
            /\ Ordered(p.shown, p.sortBy)

\* C16 as stated: with a search term, every bike of the catalog on the page
\* has the term in its name.
C16_ListedNamesContainTerm ==
    LET p == views.browse
    IN  p.searchTerm # <<>> => \A b \in Elements(p.shown) : Within(p.searchTerm, b.name)

\* C16: with a search term, every bike of the catalog on the page has the
\* term in its name, its type or its description, whatever the case.
C16_ListedBikesContainTerm ==
    LET p == views.browse
    IN  p.searchTerm # <<>> =>
            \A b \in Elements(p.shown) :
                \/ Within(p.searchTerm, b.name)
                \/ Within(p.searchTerm, b.type)
                \/ Within(p.searchTerm, b.description)

\* A search that lists some of the loaded bikes and leaves others out.
C16_SearchNarrowsTheCatalog ==
    LET p == views.browse
    IN  /\ p.searchTerm # <<>>
        /\ p.shown # <<>>
        /\ Len(p.shown) < Len(p.bikes)

\* C17 as stated: every pre-reservation handed to bookings.create starts
\* strictly later than the instant it is submitted at.
C17_PreReservationInFuture ==
    [][\A r \in Issued : r.bookingType = "pre_reservation" => r.startDate > now]_vars

\* C18 as stated: every instant booking handed to bookings.create starts no
\* later than the instant it is submitted at, whatever was typed into the
\* start date and start time fields.
C18_InstantStartsNow ==
    [][\A r \in Issued : r.bookingType = "instant" => r.startDate <= now]_vars

\* C19 as stated: whenever the admin routes are registered, the user signed
\* in has an admin record.
C19_AdminRoutesOnlyForAdmins ==
    AdminRoutesRegistered(views.app) => HasAdminRecord(Val(views.app.user))

\* The approve/reject updates the step sends.
IssuedActions ==
    { net'[i] : i \in { j \in (Len(net) + 1)..Len(net') :
                          net'[j].kind = "update" /\ net'[j].via \in BookingActions } }

\* C20 as stated: with one admin session, an approve or reject is sent only
\* for a booking whose stored status is still 'pending', so never a second
\* one after the first was written.
C20_ActionOnlyOnStoredPending ==
    [][\A c \in IssuedActions : bookings[c.id].status = "pending"]_vars

\* The admin records of a user.
RecordsOf(u) == { i \in 1..Len(adminUsers) : adminUsers[i] = u }

\* C21 as stated: whatever the interleaving of handleSetupAdmin and
\* handleBecomeAdmin calls, no user has more than one admin record.
C21_OneAdminRecordPerUser ==
    \A u \in Users : Cardinality(RecordsOf(u)) <= 1

\* C22 as stated: a stored booking with status 'completed' has return
\* status 'returned' and its returnedAt set.
C22_CompletedMeansReturned ==
    \A i \in 1..Len(bookings) :
        bookings[i].status = "completed" =>
            /\ bookings[i].returnStatus = Some("returned")
            /\ bookings[i].returnedAt # None

\* C23 as stated: a stored booking has its deliveredAt set exactly when its
\* delivery status is 'delivered'.
C23_DeliveredAtIffDelivered ==
    \A i \in 1..Len(bookings) :
        bookings[i].deliveredAt # None <=> bookings[i].deliveryStatus = Some("delivered")

\* C24 as stated: a 'delivered' (a 'returned') notification goes out only
\* with an update that changed the stored delivery status (return status)
\* from another value to 'delivered' ('returned').
C24_NotifiedOnChangeOnly ==
    [][notice' # None =>
          LET n == Val(notice')
          IN  /\ n.action = "delivered" =>
                    /\ bookings[n.id].deliveryStatus # Some("delivered")
                    /\ bookings'[n.id].deliveryStatus = Some("delivered")
              /\ n.action = "returned" =>
                    /\ bookings[n.id].returnStatus # Some("returned")
                    /\ bookings'[n.id].returnStatus = Some("returned")]_vars

\* The update calls in flight that the step takes the answer of.
Answered == { k \in 1..Len(net) : net[k].kind = "update" /\ net' = RemoveAt(net, k) }

\* C25: a notification goes out only in the step in which the update it
\* belongs to is written to the store; a step in which an update fails sends
\* no notification, shows no success toast and leaves the stored bookings as
\* they are.
C25_NotifiedAfterWriteOnly ==
    [][/\ notice' # None =>
            \E k \in Answered :
                /\ net[k].id = Val(notice').id /\ net[k].notify = Val(notice').action
                /\ bookings' = [bookings EXCEPT ![net[k].id] = Merge(@, net[k].data)]
                /\ toast'.title = "Success"
       /\ (Answered # {} /\ toast'.variant = "destructive") =>
            /\ notice' = None
            /\ toast'.title # "Success"
            /\ bookings' = bookings]_vars

\* An update has failed, and the stored booking is still pending.
C25_FailedUpdate ==
    /\ toast = Toast("Error", "destructive") /\ console = "Error updating booking:"
    /\ \E i \in 1..Len(bookings) : bookings[i].status = "pending"

\* C26: a booking is handed to bookings.create only with the bike and the
\* user loaded, for that user and that bike (the bike of the route); without
\* one of them no step sends a create, and what is stored is what was sent.
C26_CreatedForLoadedBikeAndUser ==
    [][/\ \A r \in Issued :
             /\ bp.bike # None /\ bp.user # None
             /\ r.userId = Val(bp.user).id /\ r.userId = CustomerUser
             /\ r.bikeId = Val(bp.bike).id /\ r.bikeId = Val(bp.bikeId)
       /\ (bp.bike = None \/ bp.user = None) => Len(net') <= Len(net)
       /\ \A r \in Stored : \E i \in 1..Len(net) : net[i].kind = "create" /\ net[i].rec = r]_vars

\* The user could not be loaded: the form is shown and valid, and nothing was
\* sent or stored.
C26_FormWithoutUser ==
    /\ FormShown(bp) /\ FormValid(bp) /\ ~SubmitDisabled(bp)
    /\ bp.user = None /\ ~bp.userLoading
    /\ net = <<>> /\ bookings = <<>>

\* C27 as stated: a booking is handed to bookings.create only for a bike
\* whose availability flag is set in the store.
C27_CreatedForAvailableBikeOnly ==
    [][\A r \in Issued : r.bikeId \in DOMAIN bikes /\ bikes[r.bikeId].isAvailable = 1]_vars

\* The sum of the amounts of the stored bookings at the given places.
RECURSIVE AmountOf(_)
AmountOf(places) ==
    IF places = {} THEN 0
    ELSE LET i == CHOOSE j \in places : TRUE
         IN  bookings[i].totalAmount + AmountOf(places \ {i})

Earning == { i \in 1..Len(bookings) : bookings[i].status \in {"approved", "completed"} }

\* The places of the bookings created in the local month and year of now.
ThisMonth ==
    { i \in 1..Len(bookings) :
        LET c == LocalTime(tz, bookings[i].createdAt) \div HoursPerMonth
            n == LocalTime(tz, now) \div HoursPerMonth
        IN  c = n }

\* C28: the stats a successful loadDashboardStats sets have totalRevenue the
\* sum of totalAmount over exactly the approved and completed bookings, and
\* monthlyRevenue that sum over those of them created in the current month
\* and year; monthlyRevenue is not more than totalRevenue.
C28_RevenueSums ==
    [][(views.dash # None /\ views'.dash # None
           /\ Val(views.dash).loading /\ ~Val(views'.dash).loading /\ console' = "") =>
          LET stats == Val(views'.dash).stats
          IN  /\ stats.totalRevenue = AmountOf(Earning)
              /\ stats.monthlyRevenue = AmountOf(Earning \cap ThisMonth)
              /\ stats.monthlyRevenue <= stats.totalRevenue]_vars

\* The dashboard is loaded and shows revenue of this month and more revenue
\* in total.
C28_MonthlyBelowTotal ==
    /\ views.dash # None /\ ~Val(views.dash).loading
    /\ Val(views.dash).stats.monthlyRevenue > 0
    /\ Val(views.dash).stats.monthlyRevenue < Val(views.dash).stats.totalRevenue

====
